---------------------------- MODULE Spec2Model ----------------------------
(***************************************************************************)
(* TrueGather frontend: the signaling channel (useSignalingWs) and the     *)
(* room store that drives it (useRoomStore).                               *)
(*                                                                         *)
(* The channel's module-level state is one record, ch, the store's state   *)
(* is one record, rs, and co holds the store's async functions that are    *)
(* suspended at an await.  A handler that calls another (cleanup ->        *)
(* disconnect, the reconnect timer -> connect) is one atomic step, as it   *)
(* is on the JavaScript event loop: a step runs from the start of a task   *)
(* or of a promise reaction to the next await.  Promise reactions that are *)
(* ready run before the next task; their order is left open.               *)
(* Fields named g_* are history fields kept for the properties; the code   *)
(* never reads them.  Participants, remote streams and the internals of    *)
(* the media objects are not part of the state.  sb is the state of the    *)
(* subscriber session (useWebRtcSubscriber) on its own: its subscriptions  *)
(* map and the peer connections it has created.  jr is one run of the      *)
(* store's joinRoom with the maps of the store in full: participants and   *)
(* publishers with the entries they hold, in insertion order, and the      *)
(* requests the run sends.  pb is the publisher session                   *)
(* (useWebRtcPublisher) with the screen sharing of the store on top of it. *)
(***************************************************************************)
EXTENDS Integers, Sequences, FiniteSets, TLC

VARIABLES ch, rs, co, sb, jr, pb

vars == <<ch, rs, co, sb, jr, pb>>

-----------------------------------------------------------------------------
(* Bounds of the model *)

MaxSockets == 2

MaxRequests == 3

\* requests a caller of the bare channel keeps outstanding
MaxApiRequests == 2

\* times setupSignalingHandlers registers its handlers
MaxHandlers == 1

\* times joinRoom registers handlers where the store joins again
MaxJoins == 2

\* connections the network fails in a row while the store runs
MaxDrops == 1

\* handler functions a caller of the bare channel registers
MaxListeners == 2

\* peer connections of the subscriber that exist at a time
MaxPcs == 2

\* publishers, and participants, that a joined payload lists
MaxListed == 2

\* camera streams, and screen streams, that are captured
MaxStreams == 2

(* Program constants *)

MAX_RECONNECT_ATTEMPTS == 5

INITIAL_BACKOFF == 1000

MAX_BACKOFF == 30000

CLOSE_NORMAL == 1000

-----------------------------------------------------------------------------
(* Values *)

NoSocket == 0

NoUrl == [scheme |-> "", host |-> ""]

\* "ws://" does not parse: new WebSocket(url) throws a SyntaxError
BadUrl == [scheme |-> "ws", host |-> ""]

Urls ==
    { [scheme |-> "ws", host |-> "0.0.0.0"],
      [scheme |-> "ws", host |-> "localhost"],
      [scheme |-> "wss", host |-> "sfu"],
      BadUrl }

\* codes of a close event: normal closure, no status received (close() was
\* called without a code), abnormal closure
CloseCodes == {1000, 1005, 1006}

Sockets == 1..MaxSockets

Requests == 1..MaxRequests

Min(a, b) == IF a < b THEN a ELSE b

\* the one value of a set built from a value bound once
Once(set) == (CHOOSE x \in set : TRUE).v

RECURSIVE Pow2(_)
Pow2(n) == IF n = 0 THEN 1 ELSE 2 * Pow2(n - 1)

Range(s) == { s[i] : i \in DOMAIN s }

\* wsUrl.replace('ws://0.0.0.0', 'ws://localhost').replace('wss://0.0.0.0', 'wss://localhost')
normalizedUrl(wsUrl) ==
    IF wsUrl.host = "0.0.0.0" /\ wsUrl.scheme \in {"ws", "wss"}
    THEN [wsUrl EXCEPT !.host = "localhost"]
    ELSE wsUrl

-----------------------------------------------------------------------------
(* WebSocket objects.  st is the life of one socket:                       *)
(*   connecting -> open -> closing -> closed     (close() on an open one)  *)
(*   connecting -> aborting -> errored -> closed (close() while connecting)*)
(*   connecting -> errored -> closed             (the transport fails)     *)
(* errored: the error event has been dispatched and the close event of the *)
(* same task has not yet.  closeReq is the code given to close().          *)

(* A slot of socks whose st is "free" holds no socket.                      *)

(* promise is the promise connect() returned for the socket, awaited says   *)
(* that a caller is suspended on it.                                       *)

FreeSocket ==
    [st |-> "free", closeReq |-> 0, promise |-> "none", awaited |-> FALSE]

NewSocket ==
    [st |-> "connecting", closeReq |-> 0, promise |-> "pending", awaited |-> FALSE]

FreeSockets(c) == { s \in Sockets : c.socks[s].st = "free" }

FirstFree(free) == CHOOSE x \in free : \A y \in free : x <= y

Live(sock) == sock.st \in {"connecting", "open"}

\* WebSocket.close(code): a no-op on a socket that is closing or closed
SocketClose(sock, code) ==
    CASE sock.st = "connecting" -> [sock EXCEPT !.st = "aborting", !.closeReq = code]
      [] sock.st = "open" -> [sock EXCEPT !.st = "closing", !.closeReq = code]
      [] OTHER -> sock

CloseHeld(c, code) ==
    IF c.ws = NoSocket THEN c
    ELSE [c EXCEPT !.socks[c.ws] = SocketClose(@, code)]

-----------------------------------------------------------------------------
(* Requests.  calls is the sequence of settlements made on the promise of  *)
(* one sendRequest call: the first one decides the promise.                *)

(* A slot of reqs whose type is "" holds no request.  g_reply is the        *)
(* request_id of the message the promise was resolved or rejected with.    *)

FreeRequest ==
    [type |-> "", sock |-> NoSocket, calls |-> <<>>, awaited |-> FALSE, g_reply |-> 0]

FreeRequests(c) == { r \in Requests : c.reqs[r].type = "" }

Issued(c) == Requests \ FreeRequests(c)

Settle(c, r, how) ==
    [c EXCEPT !.reqs[r].calls = IF Len(@) < 3 THEN Append(@, how) ELSE @]

Settled(c, r) == c.reqs[r].calls # <<>>

RECURSIVE SettleAll(_, _, _)
SettleAll(c, ids, how) ==
    IF ids = {} THEN c
    ELSE LET r == CHOOSE x \in ids : TRUE
         IN SettleAll(Settle(c, r, how), ids \ {r}, how)

-----------------------------------------------------------------------------
(* The channel's functions *)

NoTimer == [armed |-> FALSE, url |-> NoUrl, delay |-> 0, g_stale |-> FALSE]

scheduleReconnectLinear(c, wsUrl, stale) ==
    LET backoff == Min(INITIAL_BACKOFF * (c.reconnectAttempts + 1), MAX_BACKOFF)
    IN [c EXCEPT
          !.reconnectTimeout = [armed |-> TRUE, url |-> wsUrl, delay |-> backoff,
                                g_stale |-> stale],
          !.reconnectAttempts = @ + 1,
          !.g_delays = Append(@, backoff)]

\* scheduleReconnect(wsUrl): clearTimeout of the previous timer and setTimeout
\* of the new one are the replacement of the record
scheduleReconnect(c, wsUrl, stale) ==
    LET backoff == Min(INITIAL_BACKOFF * Pow2(c.reconnectAttempts), MAX_BACKOFF)
    IN [c EXCEPT
          !.reconnectTimeout = [armed |-> TRUE, url |-> wsUrl, delay |-> backoff,
                                g_stale |-> stale],
          !.reconnectAttempts = @ + 1,
          !.g_delays = Append(@, backoff)]

\* connect(wsUrl)
connect(c, wsUrl) ==
    LET n == normalizedUrl(wsUrl) IN
    IF c.isConnected /\ c.currentWsUrl = n THEN c
    ELSE IF c.isConnecting THEN c
    ELSE LET c1 == [c EXCEPT !.currentWsUrl = n, !.isConnecting = TRUE]
             c2 == CloseHeld(c1, 0)
             s  == FirstFree(FreeSockets(c2))
         IN IF n = BadUrl
            THEN \* new WebSocket throws: the catch block
                 [c2 EXCEPT !.isConnecting = FALSE]
            ELSE [c2 EXCEPT !.socks[s] = NewSocket, !.ws = s]

\* ws.onopen of socket s
onopen(c, s) ==
    [c EXCEPT !.isConnected = TRUE, !.isConnecting = FALSE,
              !.reconnectAttempts = 0,
              !.socks[s].promise = IF @ = "pending" THEN "resolved" ELSE @,
              !.g_delays = <<>>]

oncloseNoCap(c, s, code) ==
    LET c1 == [c EXCEPT !.isConnected = FALSE, !.isConnecting = FALSE]
    IN IF code # CLOSE_NORMAL /\ c1.currentWsUrl # NoUrl
       THEN scheduleReconnect(c1, c1.currentWsUrl, s # c.ws)
       ELSE c1

\* ws.onclose of socket s with event.code = code
onclose(c, s, code) ==
    LET c1 == [c EXCEPT !.isConnected = FALSE, !.isConnecting = FALSE]
    IN IF code # CLOSE_NORMAL /\ c1.reconnectAttempts < MAX_RECONNECT_ATTEMPTS
          /\ c1.currentWsUrl # NoUrl
       THEN scheduleReconnect(c1, c1.currentWsUrl, s # c.ws)
       ELSE c1

\* ws.onerror of socket s
onerror(c, s) ==
    [c EXCEPT !.isConnecting = FALSE,
              !.socks[s].promise = IF @ = "pending" THEN "rejected" ELSE @]

\* generateRequestId(): an id no outstanding request has
generateRequestId(c) == FirstFree(FreeRequests(c))

\* sendRequest(type, payload)
sendRequest(c, type) ==
    LET requestId == generateRequestId(c)
        new(calls, sent) == [type |-> type, sock |-> IF sent THEN c.ws ELSE NoSocket,
                             calls |-> calls, awaited |-> FALSE, g_reply |-> 0]
    IN IF c.ws = NoSocket \/ ~c.isConnected
       THEN \* throw new Error('WebSocket not connected')
            [c EXCEPT !.reqs[requestId] = new(<<"notconnected">>, FALSE)]
       ELSE LET reg == [c EXCEPT !.pendingRequests = @ \cup {requestId},
                                 !.requestTimers = @ \cup {requestId}]
            IN CASE c.socks[c.ws].st = "connecting" ->
                      \* WebSocket.send throws InvalidStateError inside the
                      \* promise executor, which rejects the promise
                      [reg EXCEPT !.reqs[requestId] = new(<<"senderror">>, FALSE)]
                 [] c.socks[c.ws].st = "open" ->
                      [reg EXCEPT !.reqs[requestId] = new(<<>>, TRUE)]
                 [] OTHER ->
                      \* a closing or closed socket discards the frame
                      [reg EXCEPT !.reqs[requestId] = new(<<>>, FALSE)]

\* send(type, payload): what the call does with the frame
send(c) ==
    IF c.ws = NoSocket \/ ~c.isConnected
    THEN "notconnected"       \* throw new Error('WebSocket not connected')
    ELSE CASE c.socks[c.ws].st = "connecting" -> "senderror"   \* InvalidStateError
           [] c.socks[c.ws].st = "open" -> "sent"
           [] OTHER -> "discarded"

handleMessageInSendOrder(c, msg) ==
    IF msg.request_id # 0 /\ msg.request_id \in c.pendingRequests
    THEN LET id == FirstFree(c.pendingRequests)
             c1 == [c EXCEPT !.requestTimers = @ \ {id},
                             !.pendingRequests = @ \ {id},
                             !.reqs[id].g_reply = msg.request_id]
         IN Settle(c1, id, IF msg.type = "error" THEN "servererror" ELSE "resolved")
    ELSE c

\* handleMessage(data) for a frame that parses
handleMessage(c, msg) ==
    IF msg.request_id # 0 /\ msg.request_id \in c.pendingRequests
    THEN LET c1 == [c EXCEPT !.requestTimers = @ \ {msg.request_id},
                             !.pendingRequests = @ \ {msg.request_id},
                             !.reqs[msg.request_id].g_reply = msg.request_id]
         IN Settle(c1, msg.request_id,
                   IF msg.type = "error" THEN "servererror" ELSE "resolved")
    ELSE c

\* the setTimeout callback of request r
requestTimeout(c, r) ==
    Settle([c EXCEPT !.requestTimers = @ \ {r}, !.pendingRequests = @ \ {r}],
           r, "timeout")

disconnectKeepsPending(c) ==
    LET c1 == [c EXCEPT !.reconnectTimeout = NoTimer, !.currentWsUrl = NoUrl,
                       !.g_off = TRUE]
    IN [CloseHeld(c1, CLOSE_NORMAL) EXCEPT !.ws = NoSocket, !.isConnected = FALSE]

disconnectKeepsTimer(c) ==
    LET c1 == [c EXCEPT !.currentWsUrl = NoUrl, !.g_off = TRUE]
        c2 == [CloseHeld(c1, CLOSE_NORMAL) EXCEPT !.ws = NoSocket, !.isConnected = FALSE]
        c3 == SettleAll(c2, c2.pendingRequests, "disconnected")
    IN [c3 EXCEPT !.requestTimers = @ \ c2.pendingRequests, !.pendingRequests = {}]

\* disconnect()
disconnect(c) ==
    LET c1 == [c EXCEPT !.reconnectTimeout = NoTimer, !.currentWsUrl = NoUrl,
                       !.g_off = TRUE]
        c2 == [CloseHeld(c1, CLOSE_NORMAL) EXCEPT !.ws = NoSocket, !.isConnected = FALSE]
        c3 == SettleAll(c2, c2.pendingRequests, "disconnected")
    IN [c3 EXCEPT !.requestTimers = @ \ c2.pendingRequests, !.pendingRequests = {}]

-----------------------------------------------------------------------------
(* Event handlers.  messageHandlers maps a message type, or '*', to the    *)
(* handlers registered under it in the order of a Set, the order they were *)
(* added in.  g_msg is the message the step handled and g_invoked the      *)
(* handlers it called, each with the key it was called under and whether   *)
(* it threw.                                                               *)

Listeners == 1..MaxListeners

EventTypes == {"error", "publisher_joined"}

Wildcard == "*"

HandlerKeys == EventTypes \cup {Wildcard}

NoMsg == [type |-> "", request_id |-> 0]

\* on(type, handler): Set.add
on(c, type, handler) ==
    [c EXCEPT !.messageHandlers[type] =
                 IF handler \in Range(@) THEN @ ELSE Append(@, handler)]

\* off(type, handler): Set.delete
off(c, type, handler) ==
    [c EXCEPT !.messageHandlers[type] = SelectSeq(@, LAMBDA h : h # handler)]

\* messageHandlers.get(type)
handlersOf(c, type) == IF type \in HandlerKeys THEN c.messageHandlers[type] ELSE <<>>

\* handlers.forEach(handler => handler(message)): the handlers called, and
\* whether one of them threw, which ends the forEach
forEach(handlers, throwers) ==
    LET at == { i \in DOMAIN handlers : handlers[i] \in throwers }
    IN IF at = {} THEN [called |-> handlers, threw |-> FALSE]
       ELSE [called |-> SubSeq(handlers, 1, FirstFree(at)), threw |-> TRUE]

\* the calls a forEach over the handlers of a key made
Under(key, each) ==
    [i \in DOMAIN each.called |->
        [key |-> key, handler |-> each.called[i],
         threw |-> each.threw /\ i = Len(each.called)]]

\* handleMessage from "Notify event handlers" on: an exception leaves the
\* try block for the catch, which logs it
notifyHandlers(c, msg, throwers) ==
    LET typed == forEach(handlersOf(c, msg.type), throwers)
        wild  == IF typed.threw THEN [called |-> <<>>, threw |-> TRUE]
                 ELSE forEach(handlersOf(c, Wildcard), throwers)
    IN [c EXCEPT !.g_invoked = Under(msg.type, typed) \o Under(Wildcard, wild)]

onmessageAlwaysNotifies(c, msg, throwers) ==
    [notifyHandlers(handleMessage(c, msg), msg, throwers) EXCEPT !.g_msg = msg]

\* ws.onmessage for a frame that parses: handleMessage returns after a
\* message that answers a pending request
onmessage(c, msg, throwers) ==
    [(IF msg.request_id # 0 /\ msg.request_id \in c.pendingRequests
      THEN handleMessage(c, msg)
      ELSE notifyHandlers(c, msg, throwers)) EXCEPT !.g_msg = msg]

-----------------------------------------------------------------------------
(* Objects nothing can reach any more leave the model: a closed socket the *)
(* channel no longer holds, and a settled request that is in neither the   *)
(* pending map nor the timer table, once no caller is suspended on its     *)
(* promise.  A request keeps the socket its frame went out by only while   *)
(* that socket can still deliver a reply.                                  *)

Collect(c) ==
    LET goneS == { s \in Sockets : /\ c.socks[s].st = "closed"
                                   /\ s # c.ws
                                   /\ ~c.socks[s].awaited }
        goneR == { r \in Requests : /\ Settled(c, r)
                                    /\ r \notin c.pendingRequests
                                    /\ r \notin c.requestTimers
                                    /\ ~c.reqs[r].awaited }
    IN [c EXCEPT
          !.socks = [s \in Sockets |-> IF s \in goneS THEN FreeSocket ELSE c.socks[s]],
          !.reqs = [r \in Requests |->
                      IF r \in goneR THEN FreeRequest
                      ELSE IF c.reqs[r].sock # NoSocket
                              /\ c.socks[c.reqs[r].sock].st = "closed"
                           THEN [c.reqs[r] EXCEPT !.sock = NoSocket]
                           ELSE c.reqs[r]]]

-----------------------------------------------------------------------------
(* The room store (useRoomStore).                                           *)
(*                                                                         *)
(* A feed id arrives in a payload as a JSON number or as a string; the     *)
(* publishers map is keyed by String(feed_id).                             *)

FeedNums == {7, 8}

FeedIds == [n : FeedNums, rep : {"number", "string"}]

String(f) == [f EXCEPT !.rep = "string"]

FeedKeys == { String(f) : f \in FeedIds }

NoUser == ""

Users == {"me", "u2"}

NoPublisher == "none"

\* the ws_url of the REST join response
WsUrl == [scheme |-> "ws", host |-> "0.0.0.0"]

\* the publishers a joined payload can list
JoinedPayloads == [FeedKeys -> {NoPublisher, "u2"}]

NoSub == [sent |-> FALSE, feeds |-> {}]

\* what the step that led to the state did: it called startPublishing in a
\* joined store (publish), it called syncSubscriptions (called), it ended a
\* pass that n calls had come in during, and follow is what came after; or
\* joinRoom rejected in it (rejected); or leaveRoom ended in it, and left is
\* how its best-effort calls had gone; pass is what the passes of
\* syncSubscriptions did in it, in order: "empty" (found nothing to subscribe
\* to), "subscribe" (called sendRequest), "response" (took the response),
\* "caught" (ran the catch block), or how the call of signaling.send for
\* subscribe_answer went; gone holds the feed_id of the publisher_left
\* message that was handled in it; event is what became of a track or an ICE
\* candidate that a peer connection of the subscriber reported in it; handled
\* counts the handlers of the store that processed the message pushed in it
NoStep ==
    [publish |-> FALSE, called |-> FALSE, follow |-> "", n |-> 0, rejected |-> FALSE,
     left |-> "", pass |-> <<>>, gone |-> {}, event |-> "", handled |-> 0]

\* a participant is absent from the participants map, or present with
\* is_publishing false, or publishing
Presence == {"absent", "present", "publishing"}

InitRoom ==
    [isJoined |-> FALSE, isJoining |-> FALSE,
     userId |-> NoUser, token |-> FALSE,
     publishers |-> [k \in FeedKeys |-> NoPublisher],
     participants |-> [u \in Users |-> "absent"],
     remoteStreams |-> {},
     subscriptions |-> {},
     callbacks |-> FALSE,
     g_maps |-> FALSE, g_pass |-> <<>>,
     startPublishingInProgress |-> FALSE,
     subscriptionSyncInProgress |-> FALSE,
     subscriptionSyncPending |-> FALSE,
     handlers |-> 0,
     pubInit |-> FALSE, pubStream |-> FALSE,
     g_step |-> NoStep, g_during |-> 0,
     g_trigFeeds |-> {}, g_ok |-> FALSE, g_sentSince |-> FALSE,
     g_lastSub |-> NoSub, g_offers |-> 0]

\* the fields the code has
Code(r) ==
    [r EXCEPT !.g_step = NoStep, !.g_during = 0, !.g_trigFeeds = {}, !.g_ok = FALSE,
              !.g_maps = FALSE, !.g_pass = <<>>,
              !.g_sentSince = FALSE, !.g_lastSub = NoSub, !.g_offers = 0]

(* An async function of the store that is suspended at an await: pc is the *)
(* await, and what it waits for is a request of the channel (req), the     *)
(* promise of connect() (sock), a promise of the browser or of the REST    *)
(* client (wait), or a promise that is already resolved (ready).           *)

Idle == [pc |-> "idle", wait |-> "", req |-> 0, sock |-> NoSocket, ready |-> FALSE]

\* the pass of syncSubscriptions in flight, and who awaits the call that began it
IdleSync ==
    [pc |-> "idle", wait |-> "", req |-> 0, sock |-> NoSocket, ready |-> FALSE,
     feeds |-> {}, waiters |-> {}]

CoNames == {"join", "publish", "leave", "sync"}

InitCo == [join |-> Idle, publish |-> Idle, leave |-> Idle, sync |-> IdleSync]

Runnable(c, k) ==
    /\ k.pc # "idle"
    /\ \/ k.ready
       \/ k.req # 0 /\ Settled(c, k.req)
       \/ k.sock # NoSocket /\ c.socks[k.sock].promise \in {"resolved", "rejected"}

\* the promise a function awaits resolves at once: it goes on in a later reaction
wake(S0, who) ==
    Once({ [v |->
            [S EXCEPT !.k = [n \in CoNames |->
                               IF n \in who THEN [S.k[n] EXCEPT !.ready = TRUE] ELSE S.k[n]]]
           ] : S \in {S0} })

\* await signaling.sendRequest(type, ...)
awaitRequest(S0, who, type) ==
    Once({ [v |->
            LET id == generateRequestId(S.c)
                c1 == sendRequest(S.c, type)
            IN [S EXCEPT !.c = [c1 EXCEPT !.reqs[id].awaited = TRUE],
                         !.k[who].req = id]
           ] : S \in {S0} })

\* how the awaited request was settled
outcome(S0, who) ==
    Once({ [v |->
            S.c.reqs[S.k[who].req].calls[1]
           ] : S \in {S0} })

\* the function has taken the outcome: nothing holds the request any more
release(S0, who) ==
    Once({ [v |->
            [S EXCEPT !.c = Collect([@ EXCEPT !.reqs[S.k[who].req].awaited = FALSE]),
                      !.k[who].req = 0]
           ] : S \in {S0} })

-----------------------------------------------------------------------------
(* syncSubscriptions *)

\* the feeds the publishers map holds under another user than the store's own
OthersFeeds(r) == { k \in FeedKeys : r.publishers[k] # NoPublisher /\ r.publishers[k] # r.userId }

allFeedsOwnIncluded(r) == { k \in FeedKeys : r.publishers[k] # NoPublisher }

\* Array.from(publishers.values()).filter(p => p.user_id !== userId.value)
allFeeds(r) == { k \in FeedKeys : r.publishers[k] \notin {NoPublisher, r.userId} }

syncInFlightNever(r) == FALSE

\* if (subscriptionSyncInProgress)
syncInFlight(r) == r.subscriptionSyncInProgress

markPendingNot(r) == r

\* subscriptionSyncPending = true
markPending(r) == [r EXCEPT !.subscriptionSyncPending = TRUE]

passBeginWithoutCleanup(S0, waiters) ==
    Once({ [v |->
            LET feeds == allFeeds(S.r)
                r1 == [S.r EXCEPT !.subscriptionSyncInProgress = TRUE,
                                  !.subscriptionSyncPending = FALSE,
                                  !.g_during = 0]
            IN IF feeds = {}
               THEN wake([S EXCEPT !.r = [r1 EXCEPT !.g_step.pass = Append(@, "empty"),
                                                    !.g_pass = <<"empty">>,
                                                    !.subscriptionSyncInProgress = FALSE]],
                         waiters)
               ELSE awaitRequest(
                      [S EXCEPT !.r = [r1 EXCEPT !.g_lastSub = [sent |-> TRUE, feeds |-> feeds],
                                                 !.g_step.pass = Append(@, "subscribe"),
                                                 !.g_pass = <<"subscribe">>,
                                                 !.g_sentSince = TRUE],
                                !.k.sync = [IdleSync EXCEPT !.pc = "request",
                                                            !.feeds = feeds,
                                                            !.waiters = waiters]],
                      "sync", "subscribe")
           ] : S \in {S0} })

\* the pass from the flags being set to its first await, or to its end when
\* there is nothing to subscribe to
passBegin(S0, waiters) ==
    Once({ [v |->
            LET feeds == allFeeds(S.r)
                r1 == [S.r EXCEPT !.subscriptionSyncInProgress = TRUE,
                                  !.subscriptionSyncPending = FALSE,
                                  !.g_during = 0]
            IN IF feeds = {}
               THEN \* subscriber.cleanup(), remoteStreams.value.clear(), and finally
                    wake([S EXCEPT !.r = [r1 EXCEPT !.subscriptions = {},
                                                    !.callbacks = FALSE,
                                                    !.remoteStreams = {},
                                                    !.g_step.pass = Append(@, "empty"),
                                                    !.g_pass = <<"empty">>,
                                                    !.subscriptionSyncInProgress = FALSE]],
                         waiters)
               ELSE awaitRequest(
                      [S EXCEPT !.r = [r1 EXCEPT !.g_lastSub = [sent |-> TRUE, feeds |-> feeds],
                                                 !.g_step.pass = Append(@, "subscribe"),
                                                 !.g_pass = <<"subscribe">>,
                                                 !.g_sentSince = TRUE],
                                !.k.sync = [IdleSync EXCEPT !.pc = "request",
                                                            !.feeds = feeds,
                                                            !.waiters = waiters]],
                      "sync", "subscribe")
           ] : S \in {S0} })

\* syncSubscriptions(), called with the promise it returns awaited by waiters
syncSubscriptions(S0, waiters) ==
    Once({ [v |->
            IF syncInFlight(S.r)
            THEN wake([S EXCEPT !.r = [markPending(S.r) EXCEPT
                                         !.g_during = IF @ < 2 THEN @ + 1 ELSE @]],
                      waiters)
            ELSE IF ~S.r.isJoined \/ ~S.c.isConnected
            THEN wake(S, waiters)
            ELSE passBegin(S, waiters)
           ] : S \in {S0} })

\* a call of syncSubscriptions that is not the pass's own re-run
callSync(S0, waiters) ==
    Once({ [v |->
            LET ok == S.r.isJoined /\ S.c.isConnected
            IN syncSubscriptions(
                 [S EXCEPT !.r = [S.r EXCEPT !.g_trigFeeds = IF ok THEN OthersFeeds(S.r) ELSE {},
                                             !.g_ok = ok,
                                             !.g_sentSince = FALSE,
                                             !.g_step.called = TRUE]],
                 waiters)
           ] : S \in {S0} })

\* the finally block of a pass
passFinally(S0) ==
    Once({ [v |->
            LET w == S.k.sync.waiters
                S1 == [S EXCEPT !.r = [S.r EXCEPT !.subscriptionSyncInProgress = FALSE,
                                                 !.g_during = 0,
                                                 !.g_step.n = S.r.g_during],
                                !.k.sync = IdleSync]
            IN IF S1.r.subscriptionSyncPending
               THEN LET S2 == syncSubscriptions(
                                [S1 EXCEPT !.r.subscriptionSyncPending = FALSE], w)
                    IN [S2 EXCEPT !.r.g_step.follow =
                                    IF S2.r.subscriptionSyncInProgress THEN "pass"
                                    ELSE IF ~S.r.isJoined \/ ~S.c.isConnected THEN "skipped"
                                    ELSE "empty"]
               ELSE [wake(S1, w) EXCEPT !.r.g_step.follow = "none"]
           ] : S \in {S0} })

\* the pass in flight goes one step further
log(r, what) == [r EXCEPT !.g_step.pass = Append(@, what), !.g_pass = Append(@, what)]

\* subscriber.subscribeMultiple(feedIds, sdp, displays, userIds) up to its
\* first await: the session holds a subscription for each of the feeds
subscribeMultiple(r, feedIds) == [r EXCEPT !.subscriptions = @ \cup feedIds]

passCatchDropsParticipants(S0) ==
    Once({ [v |->
            passFinally([S EXCEPT !.r = log([S.r EXCEPT
                                               !.participants =
                                                  [u \in Users |->
                                                     IF S.r.publishers \in [FeedKeys -> {NoPublisher, u}]
                                                     THEN @[u] ELSE "absent"]],
                                            "caught")])
           ] : S \in {S0} })

\* the catch block of a pass, and its finally block
passCatch(S0) ==
    Once({ [v |->
            passFinally([S EXCEPT !.r = log(S.r, "caught")])
           ] : S \in {S0} })

subscribeAnswerAsRequest(S0) ==
    Once({ [v |->
            passFinally([S EXCEPT !.c = sendRequest(S.c, "subscribe_answer"),
                                  !.r = log(log(S.r, "answer"), "sent")])
           ] : S \in {S0} })

\* signaling.send('subscribe_answer', { sdp: answerSdp }), and the end of the pass
subscribeAnswer(S0) ==
    Once({ [v |->
            LET how == send(S.c)
                S1 == [S EXCEPT !.r = log(log(S.r, "answer"), how)]
            IN IF how \in {"notconnected", "senderror"} THEN passCatch(S1)
               ELSE passFinally(S1)
           ] : S \in {S0} })

\* the pass goes on after an await; sm is what subscriber.subscribeMultiple
\* does when called: it throws, or it returns a promise that settles later
syncResume(S0, sm) ==
    Once({ [v |->
            IF S.k.sync.pc = "request"
            THEN LET S1 == release(S, "sync")
                 IN IF outcome(S, "sync") # "resolved" THEN passCatch(S1)
                    ELSE LET S2 == [S1 EXCEPT !.r = log(S1.r, "response")]
                         IN IF sm = "suspends"
                            THEN [S2 EXCEPT !.r = subscribeMultiple(S2.r, S.k.sync.feeds),
                                            !.k.sync.pc = "answer",
                                            !.k.sync.wait = "pending"]
                            ELSE passCatch(S2)
            ELSE IF S.k.sync.wait = "ok" THEN subscribeAnswer(S)
            ELSE passCatch(S)
           ] : S \in {S0} })

-----------------------------------------------------------------------------
(* cleanup, joinRoom, leaveRoom *)

cleanupKeepsChannel(S0) ==
    Once({ [v |->
            [S EXCEPT !.r = [S.r EXCEPT !.pubInit = FALSE, !.pubStream = FALSE,
                                        !.userId = NoUser, !.token = FALSE,
                                        !.publishers = [k \in FeedKeys |-> NoPublisher],
                                        !.participants = [u \in Users |-> "absent"],
                                        !.remoteStreams = {}, !.subscriptions = {},
                                        !.callbacks = FALSE,
                                        !.isJoined = FALSE, !.isJoining = FALSE,
                                        !.g_lastSub = NoSub]]
           ] : S \in {S0} })

\* cleanup(): publisher.stop(), subscriber.cleanup(), signaling.disconnect(),
\* and the store's state reset
cleanup(S0) ==
    Once({ [v |->
            [S EXCEPT !.c = disconnect(S.c),
                      !.r = [S.r EXCEPT !.pubInit = FALSE, !.pubStream = FALSE,
                                        !.userId = NoUser, !.token = FALSE,
                                        !.publishers = [k \in FeedKeys |-> NoPublisher],
                                        !.participants = [u \in Users |-> "absent"],
                                        !.remoteStreams = {}, !.subscriptions = {},
                                        !.callbacks = FALSE,
                                        !.isJoined = FALSE, !.isJoining = FALSE,
                                        !.g_lastSub = NoSub]]
           ] : S \in {S0} })

\* joinRoom up to its first await
joinRoom(S0) ==
    Once({ [v |->
            IF S.r.isJoining \/ S.r.isJoined THEN S
            ELSE [S EXCEPT !.r.isJoining = TRUE,
                           !.k.join = [Idle EXCEPT !.pc = "getRoom", !.wait = "pending"]]
           ] : S \in {S0} })

\* the catch block of joinRoom up to "await cleanup()"
joinFail(S0) ==
    Once({ [v |->
            [cleanup(S) EXCEPT !.k.join = [Idle EXCEPT !.pc = "failed", !.ready = TRUE]]
           ] : S \in {S0} })

\* joinRoom goes on after an await; payload is what the joined reply lists
joinResume(S0, payload) ==
    Once({ [v |->
            LET j == S.k.join IN
            CASE j.pc = "getRoom" ->
                   IF j.wait = "ok"
                   THEN [S EXCEPT !.k.join = [Idle EXCEPT !.pc = "apiJoin", !.wait = "pending"]]
                   ELSE joinFail(S)
              [] j.pc = "apiJoin" ->
                   IF j.wait = "ok"
                   THEN LET c1 == [connect(S.c, WsUrl) EXCEPT !.g_off = FALSE]
                            r1 == [S.r EXCEPT !.userId = "me", !.token = TRUE]
                        IN IF c1.ws # S.c.ws
                           THEN [S EXCEPT !.c = [c1 EXCEPT !.socks[c1.ws].awaited = TRUE],
                                          !.r = r1,
                                          !.k.join = [Idle EXCEPT !.pc = "connect", !.sock = c1.ws]]
                           ELSE \* connect() returned without a socket of its own
                                [S EXCEPT !.c = c1, !.r = r1,
                                          !.k.join = [Idle EXCEPT !.pc = "connect", !.ready = TRUE]]
                   ELSE joinFail(S)
              [] j.pc = "connect" ->
                   LET S1 == IF j.sock = NoSocket THEN S
                             ELSE [S EXCEPT !.c.socks[j.sock].awaited = FALSE]
                   IN IF j.ready \/ S.c.socks[j.sock].promise = "resolved"
                      THEN \* setupSignalingHandlers(), then the join_room request
                           awaitRequest(
                             [S1 EXCEPT !.r.handlers = @ + 1,
                                        !.r.callbacks = TRUE,
                                        !.k.join = [Idle EXCEPT !.pc = "joinReq"]],
                             "join", "join_room")
                      ELSE joinFail(S1)
              [] j.pc = "joinReq" ->
                   LET S1 == release(S, "join")
                   IN IF outcome(S, "join") = "resolved"
                      THEN callSync(
                             [S1 EXCEPT !.r.publishers =
                                           [k \in FeedKeys |->
                                              IF payload[k] # NoPublisher THEN payload[k] ELSE @[k]],
                                        !.r.participants =
                                           [u \in Users |->
                                              IF u = S.r.userId THEN "present"
                                              ELSE IF \E k \in FeedKeys : payload[k] = u
                                              THEN "publishing" ELSE "absent"],
                                        !.r.isJoined = TRUE,
                                        !.k.join = [Idle EXCEPT !.pc = "sync"]],
                             {"join"})
                      ELSE joinFail(S1)
              [] OTHER ->
                   \* after "await syncSubscriptions()" or "await cleanup()": finally
                   [S EXCEPT !.r.isJoining = FALSE, !.k.join = Idle,
                             !.r.g_step.rejected = (j.pc = "failed")]
           ] : S \in {S0} })

leaveFinallyWithoutCleanup(S0) ==
    Once({ [v |->
            [S EXCEPT !.k.leave = Idle,
                      !.r.g_step.left = IF S.k.leave.wait = "fail" THEN "restFailed" ELSE "ended"]
           ] : S \in {S0} })

\* the finally block of leaveRoom
leaveFinally(S0) ==
    Once({ [v |->
            [cleanup(S) EXCEPT !.k.leave = Idle,
                               !.r.g_step.left = IF S.k.leave.wait = "fail" THEN "restFailed"
                                                 ELSE "ended"]
           ] : S \in {S0} })

\* if (token.value && roomId.value) await api.leaveRoom(...)
leaveRest(S0) ==
    Once({ [v |->
            IF S.r.token
            THEN [S EXCEPT !.k.leave = [Idle EXCEPT !.pc = "rest", !.wait = "pending"]]
            ELSE leaveFinally(S)
           ] : S \in {S0} })

\* leaveRoom up to its first await
leaveRoom(S0) ==
    Once({ [v |->
            IF S.r.isJoined /\ S.c.isConnected
            THEN awaitRequest([S EXCEPT !.k.leave = [Idle EXCEPT !.pc = "leaveReq"]],
                              "leave", "leave")
            ELSE leaveRest(S)
           ] : S \in {S0} })

leaveResume(S0) ==
    Once({ [v |->
            IF S.k.leave.pc = "leaveReq"
            THEN LET S1 == release(S, "leave")
                 IN IF outcome(S, "leave") = "resolved" THEN leaveRest(S1)
                    ELSE [leaveFinally(S1) EXCEPT !.r.g_step.left = outcome(S, "leave")]
            ELSE leaveFinally(S)
           ] : S \in {S0} })

-----------------------------------------------------------------------------
(* startPublishing *)

startPublishingGuardNever(r) == FALSE

\* if (startPublishingInProgress)
startPublishingGuard(r) == r.startPublishingInProgress

publishFinallyKeepsFlag(S0) ==
    Once({ [v |->
            [S EXCEPT !.k.publish = Idle]
           ] : S \in {S0} })

\* the catch and finally blocks
publishFinally(S0) ==
    Once({ [v |->
            [S EXCEPT !.r.startPublishingInProgress = FALSE, !.k.publish = Idle]
           ] : S \in {S0} })

\* publisher.addTracks() does not throw
addTracks(r) == r.pubInit /\ r.pubStream

\* await publisher.createOffer()
createOffer(S0) ==
    Once({ [v |->
            IF ~S.r.pubInit THEN publishFinally(S)
            ELSE [S EXCEPT !.k.publish = [Idle EXCEPT !.pc = "offer", !.wait = "pending"]]
           ] : S \in {S0} })

\* startPublishing up to its first await
startPublishing(S0) ==
    Once({ [v |->
            IF ~S.r.isJoined THEN S
            ELSE IF startPublishingGuard(S.r) THEN [S EXCEPT !.r.g_step.publish = TRUE]
            ELSE [S EXCEPT !.r.startPublishingInProgress = TRUE,
                           !.r.pubInit = TRUE,
                           !.r.g_offers = 0,
                           !.r.g_step.publish = TRUE,
                           !.k.publish = [Idle EXCEPT !.pc = "capture", !.wait = "pending"]]
           ] : S \in {S0} })

publishResume(S0) ==
    Once({ [v |->
            LET p == S.k.publish IN
            CASE p.pc = "capture" ->
                   IF p.wait # "ok" THEN publishFinally(S)
                   ELSE IF addTracks(S.r) THEN createOffer(S)
                   ELSE \* re-initialize if needed and wait 50 ms
                        [S EXCEPT !.r.pubInit = TRUE,
                                  !.k.publish = [Idle EXCEPT !.pc = "tick", !.wait = "pending"]]
              [] p.pc = "tick" ->
                   IF addTracks(S.r) THEN createOffer(S) ELSE publishFinally(S)
              [] p.pc = "offer" ->
                   IF p.wait # "ok" THEN publishFinally(S)
                   ELSE awaitRequest(
                          [S EXCEPT !.r.g_offers = IF S.c.ws # NoSocket /\ S.c.isConnected /\ @ < 2
                                                   THEN @ + 1 ELSE @,
                                    !.k.publish = [Idle EXCEPT !.pc = "request"]],
                          "publish", "publish_offer")
              [] p.pc = "request" ->
                   LET S1 == release(S, "publish")
                   IN IF outcome(S, "publish") = "resolved" /\ S.r.pubInit
                      THEN [S1 EXCEPT !.k.publish = [Idle EXCEPT !.pc = "answer", !.wait = "pending"]]
                      ELSE publishFinally(S1)
              [] p.pc = "answer" ->
                   IF p.wait # "ok" THEN publishFinally(S)
                   ELSE callSync([S EXCEPT !.r.participants =
                                              IF S.r.userId \in Users /\ @[S.r.userId] # "absent"
                                              THEN [@ EXCEPT ![S.r.userId] = "publishing"]
                                              ELSE @,
                                           !.k.publish = [Idle EXCEPT !.pc = "sync"]],
                                 {"publish"})
              [] OTHER ->
                   \* after "await syncSubscriptions()"
                   publishFinally(S)
           ] : S \in {S0} })

-----------------------------------------------------------------------------
(* The handlers setupSignalingHandlers registers *)

\* signaling.on('publisher_joined', ...)
onPublisherJoined(S0, msg) ==
    Once({ [v |->
            callSync([S EXCEPT !.r.publishers[String(msg.feed_id)] = msg.user_id,
                               !.r.participants[msg.user_id] = "publishing",
                               !.r.g_step.handled = @ + 1], {})
           ] : S \in {S0} })

\* signaling.on('publisher_left', ...): the map is read with the payload's
\* feed_id as it came
onPublisherLeft(S0, msg) ==
    Once({ [v |->
            IF msg.feed_id \in FeedKeys /\ S.r.publishers[msg.feed_id] # NoPublisher
            THEN LET pub == S.r.publishers[msg.feed_id]
                     S1 == callSync([S EXCEPT !.r.publishers[msg.feed_id] = NoPublisher,
                                              !.r.remoteStreams = @ \ {msg.feed_id},
                                              !.r.subscriptions = @ \ {msg.feed_id}],
                                    {})
                 IN \* p.is_publishing = false, if the participant is known
                    [S1 EXCEPT !.r.participants[pub] = IF @ = "absent" THEN @ ELSE "present",
                               !.r.g_step.gone = {msg.feed_id},
                               !.r.g_step.handled = @ + 1]
            ELSE [S EXCEPT !.r.g_step.gone = {msg.feed_id}, !.r.g_step.handled = @ + 1]
           ] : S \in {S0} })

PushMessages ==
    [type : {"publisher_joined"}, feed_id : FeedIds, user_id : Users]
    \cup [type : {"publisher_left"}, feed_id : FeedIds, user_id : {NoUser}]

\* handleMessage for a message that answers no request: every registered
\* handler of the type is called, n are left to call
RECURSIVE dispatch(_, _, _)
dispatch(S0, msg, n) ==
    Once({ [v |->
            IF n = 0 THEN S
            ELSE dispatch(IF msg.type = "publisher_joined" THEN onPublisherJoined(S, msg)
                          ELSE onPublisherLeft(S, msg),
                          msg, n - 1)
           ] : S \in {S0} })

-----------------------------------------------------------------------------
(* The subscriber session (useWebRtcSubscriber).                           *)
(*                                                                         *)
(* pcs are the RTCPeerConnection objects, each with the subscription       *)
(* object of the subscribe() call that created it: feed, remoteStream, and *)
(* at, the await the call is suspended at.  A MediaStream is the sequence  *)
(* of the ids of its tracks.  subscriptions maps a feed to the peer        *)
(* connection of the subscription stored under it: the object stored is    *)
(* the subscription object or a copy of it that shares its pc and stream.  *)

Pcs == 1..MaxPcs

NoPc == 0

TrackIds == {"audio", "video"}

\* no feed: the feedId of no subscription
NoFeedId == [n |-> 0, rep |-> "string"]

NoStream == [has |-> FALSE, tracks |-> <<>>]

FreePc ==
    [st |-> "free", feed |-> NoFeedId, at |-> "", remoteStream |-> NoStream,
     stopped |-> {}, g_delivered |-> {}]

NoOp == [op |-> "", feed |-> NoFeedId, pc |-> NoPc, dup |-> FALSE]

InitSubscriber ==
    [subscriptions |-> [f \in FeedKeys |-> NoPc],
     pcs |-> [p \in Pcs |-> FreePc],
     g_last |-> NoOp]

\* the sequences without repetition of the elements of a set
Streams(ids) ==
    { q \in UNION { [1..n -> ids] : n \in 0..Cardinality(ids) } :
         Cardinality(Range(q)) = Len(q) }

\* a track event: the track and event.streams[0], <<>> when there is none
TrackEvents ==
    { e \in [track : TrackIds, streams : Streams(TrackIds)] :
         e.streams = <<>> \/ e.track \in Range(e.streams) }

\* subscribe(feedId, ...) up to "await pc.setRemoteDescription(offer)"
subscribe(b, feedId) ==
    LET pc == FirstFree({ p \in Pcs : b.pcs[p].st = "free" })
    IN [b EXCEPT !.pcs[pc] = [FreePc EXCEPT !.st = "open", !.feed = feedId,
                                           !.at = "setRemoteDescription"],
                 !.subscriptions[feedId] = pc,
                 !.g_last = [NoOp EXCEPT !.op = "subscribe", !.feed = feedId, !.pc = pc]]

\* subscribe() goes on after an await that settled as how says
subscribeResume(b, pc, how) ==
    [b EXCEPT !.pcs[pc].at =
                 IF how # "ok" THEN "threw"
                 ELSE CASE @ = "setRemoteDescription" -> "createAnswer"
                        [] @ = "createAnswer" -> "setLocalDescription"
                        [] OTHER -> "returned",
              !.g_last = NoOp]

ontrackWithoutCheck(b, pc, event) ==
    LET subscription == b.pcs[pc]
        stream == IF subscription.remoteStream.has THEN subscription.remoteStream.tracks
                  ELSE event.streams
    IN [b EXCEPT !.pcs[pc].remoteStream = [has |-> TRUE, tracks |-> Append(stream, event.track)],
                 !.pcs[pc].g_delivered = @ \cup {event.track},
                 !.subscriptions[subscription.feed] = pc,
                 !.g_last = [op |-> "ontrack", feed |-> subscription.feed, pc |-> pc,
                             dup |-> event.track \in Range(stream)]]

\* pc.ontrack of the peer connection pc
ontrack(b, pc, event) ==
    LET subscription == b.pcs[pc]
        \* if (!subscription.remoteStream) remoteStream = incomingStream ?? new MediaStream()
        stream == IF subscription.remoteStream.has THEN subscription.remoteStream.tracks
                  ELSE event.streams
        existingTrackIds == Range(stream)
        added == IF event.track \notin existingTrackIds THEN Append(stream, event.track)
                 ELSE stream
    IN [b EXCEPT !.pcs[pc].remoteStream = [has |-> TRUE, tracks |-> added],
                 !.pcs[pc].g_delivered = @ \cup {event.track},
                 \* subscriptions.value.set(feedId, { ...subscription })
                 !.subscriptions[subscription.feed] = pc,
                 !.g_last = [op |-> "ontrack", feed |-> subscription.feed, pc |-> pc,
                             dup |-> event.track \in existingTrackIds]]

\* getRemoteStream(feedId)
getRemoteStream(b, feedId) ==
    IF b.subscriptions[feedId] = NoPc THEN NoStream
    ELSE b.pcs[b.subscriptions[feedId]].remoteStream

\* unsubscribe(feedId)
unsubscribe(b, feedId) ==
    LET pc == b.subscriptions[feedId]
        done == [NoOp EXCEPT !.op = "unsubscribe", !.feed = feedId, !.pc = pc]
    IN IF pc = NoPc THEN [b EXCEPT !.g_last = done]
       ELSE [b EXCEPT !.pcs[pc].stopped = Range(b.pcs[pc].remoteStream.tracks),
                      !.pcs[pc].st = "closed",
                      !.subscriptions[feedId] = NoPc,
                      !.g_last = done]

\* a closed peer connection whose subscribe() call has ended is unreachable
CollectPcs(b) ==
    [b EXCEPT !.pcs = [p \in Pcs |->
                         IF b.pcs[p].st = "closed" /\ b.pcs[p].at \in {"returned", "threw"}
                               /\ p \notin Range(b.subscriptions)
                         THEN FreePc ELSE b.pcs[p]]]

-----------------------------------------------------------------------------
(* joinRoom of the room store, with what its maps hold.                    *)
(*                                                                         *)
(* A Map is the sequence of its entries in insertion order.  The run is    *)
(* one in which every await of joinRoom is fulfilled: the REST calls       *)
(* answer, the channel connects, and the server answers each request.      *)

Displays == {"Alice", "Bob"}

\* the display names of the others in the room
ListedDisplays == {"Bob"}

\* Map.prototype.set: an existing key keeps its place
mapSet(m, key, value) ==
    IF \E i \in DOMAIN m : m[i].key = key
    THEN [i \in DOMAIN m |-> IF m[i].key = key THEN [key |-> key, value |-> value] ELSE m[i]]
    ELSE Append(m, [key |-> key, value |-> value])

\* Array.from(map.values())
mapValues(m) == [i \in DOMAIN m |-> m[i].value]

\* a member in joinResponse.participants or in the joined payload
ListedParticipants == [user_id : Users, display : ListedDisplays]

\* a member in joinResponse.participants of the REST join: the REST service
\* may know a member under another display name than the room server
RestParticipants == [user_id : Users, display : Displays]

\* a publisher in the joined payload: the server may send no user_id
ListedPublishers == [feed_id : FeedIds, display : ListedDisplays, user_id : Users \cup {NoUser}]

ListsOf(set) == UNION { [1..n -> set] : n \in 0..MaxListed }

JoinedResults == [participants : ListsOf(ListedParticipants), publishers : ListsOf(ListedPublishers)]

NoJoined == [participants |-> <<>>, publishers |-> <<>>]

InitJoinRoom ==
    [at |-> "idle", displayName |-> "", userId |-> NoUser, isJoined |-> FALSE,
     participants |-> <<>>, publishers |-> <<>>,
     sent |-> <<>>, g_joined |-> NoJoined, g_rest |-> <<>>]

\* a participant entry; joined_at is left out
participant(user_id, display, is_publishing) ==
    [user_id |-> user_id, display |-> display, is_publishing |-> is_publishing,
     is_muted |-> FALSE, is_video_off |-> FALSE]

\* for (const m of list) participants.value.set(m.user_id, {...})
RECURSIVE setParticipants(_, _)
setParticipants(participants, list) ==
    IF list = <<>> THEN participants
    ELSE setParticipants(
           mapSet(participants, Head(list).user_id,
                  participant(Head(list).user_id, Head(list).display, FALSE)),
           Tail(list))

\* for (const pub of joinResult.payload.publishers) { ... }
RECURSIVE setPublishers(_, _)
setPublishers(j, list) ==
    IF list = <<>> THEN j
    ELSE LET pub == Head(list)
             j1 == [j EXCEPT !.publishers =
                       mapSet(@, String(pub.feed_id),
                              [feed_id |-> String(pub.feed_id), display |-> pub.display,
                               user_id |-> pub.user_id])]
             \* if (pub.user_id)
             j2 == IF pub.user_id # NoUser
                   THEN [j1 EXCEPT !.participants =
                           mapSet(@, pub.user_id, participant(pub.user_id, pub.display, TRUE))]
                   ELSE j1
         IN setPublishers(j2, Tail(list))

\* publishers.values().filter(p => p.user_id !== userId).map(p => ({feed_id: p.feed_id}))
allFeedsOf(j) ==
    LET others == SelectSeq(mapValues(j.publishers), LAMBDA p : p.user_id # j.userId)
    IN [i \in DOMAIN others |-> [feed_id |-> others[i].feed_id]]

\* joinRoom(id, display) up to the await of the join_room request
joinRoomCall(j, display, user_id) ==
    IF j.at # "idle" \/ j.isJoined THEN j
    ELSE [j EXCEPT !.at = "join_room", !.displayName = display, !.userId = user_id,
                   !.sent = Append(@, [type |-> "join_room", feeds |-> <<>>])]

joinRoomJoinedWithoutClear(j, rest, joinResult) ==
    LET \* Initialize participants from REST join response
        seeded == [j EXCEPT !.participants = setParticipants(@, rest)]
        cleared == seeded
        listed == [cleared EXCEPT !.participants = setParticipants(@, joinResult.participants)]
        withPublishers == setPublishers(listed, joinResult.publishers)
        \* Add self to participants
        withSelf == [withPublishers EXCEPT
                       !.participants = mapSet(@, j.userId, participant(j.userId, j.displayName, FALSE)),
                       !.isJoined = TRUE,
                       !.g_joined = joinResult,
                       !.g_rest = rest]
        feeds == allFeedsOf(withSelf)
    IN IF feeds = <<>> THEN [withSelf EXCEPT !.at = "joined"]
       ELSE [withSelf EXCEPT !.at = "subscribe",
                             !.sent = Append(@, [type |-> "subscribe", feeds |-> feeds])]

\* joinRoom from the joined reply to the await in syncSubscriptions
joinRoomJoined(j, rest, joinResult) ==
    LET \* Initialize participants from REST join response
        seeded == [j EXCEPT !.participants = setParticipants(@, rest)]
        \* participants.value.clear()
        cleared == [seeded EXCEPT !.participants = <<>>]
        listed == [cleared EXCEPT !.participants = setParticipants(@, joinResult.participants)]
        withPublishers == setPublishers(listed, joinResult.publishers)
        \* Add self to participants
        withSelf == [withPublishers EXCEPT
                       !.participants = mapSet(@, j.userId, participant(j.userId, j.displayName, FALSE)),
                       !.isJoined = TRUE,
                       !.g_joined = joinResult,
                       !.g_rest = rest]
        feeds == allFeedsOf(withSelf)
    IN IF feeds = <<>> THEN [withSelf EXCEPT !.at = "joined"]
       ELSE [withSelf EXCEPT !.at = "subscribe",
                             !.sent = Append(@, [type |-> "subscribe", feeds |-> feeds])]

\* syncSubscriptions after the offer: signaling.send('subscribe_answer', ...)
joinRoomOffer(j) ==
    [j EXCEPT !.at = "joined",
              !.sent = Append(@, [type |-> "subscribe_answer", feeds |-> <<>>])]

-----------------------------------------------------------------------------
(* The publisher session (useWebRtcPublisher) and the screen sharing of    *)
(* the store.                                                              *)
(*                                                                         *)
(* A MediaStream is its source, the number of the capture that made it and *)
(* the kinds of its tracks; a track is a stream's track of a kind, and     *)
(* stopped is the set of the tracks that track.stop() was called on.  pc   *)
(* is the publisher's current peer connection with its connection state    *)
(* and the tracks its senders carry: a peer connection that was closed     *)
(* fires no event and is not part of the state.  localStream is the        *)
(* publisher's, preview the store's localStream.  sc is the call of        *)
(* startScreenShare or stopScreenShare that is suspended at an await.      *)

Kinds == {"video", "audio"}

NoMedia == [src |-> "none", gen |-> 0, kinds |-> {}]

NoPeer == [has |-> FALSE, connectionState |-> "closed", senders |-> <<>>]

tracksOf(stream) == { [src |-> stream.src, gen |-> stream.gen, kind |-> k] : k \in stream.kinds }

\* what an await of replaceTrack stands at: the sender found, 0 for none,
\* and whether the peer connection it belongs to has been closed since
NoCall == [at |-> "idle", stream |-> NoMedia, sender |-> 0, stale |-> FALSE]

\* what the step did: the store's or the publisher's function that acted and
\* how it ended (g_last), and the call of replaceTrack that returned in it
NoResult == [op |-> "", result |-> ""]

NoReplace == [result |-> "", found |-> FALSE, track |-> [src |-> "none", gen |-> 0, kind |-> ""]]

InitPublisher ==
    [pc |-> NoPeer, localStream |-> NoMedia, isInitialized |-> FALSE, isPublishing |-> FALSE,
     stopped |-> {}, captures |-> 0, capturing |-> FALSE,
     preview |-> NoMedia, cameraStream |-> NoMedia, screenStream |-> NoMedia,
     isScreenSharing |-> FALSE, isScreenShareAudio |-> FALSE, screens |-> 0,
     sc |-> NoCall, g_backup |-> NoMedia, g_quiet |-> FALSE, g_last |-> NoResult,
     g_replace |-> NoReplace]

\* initialize(iceServers)
initialize(p) ==
    [p EXCEPT !.pc = [has |-> TRUE, connectionState |-> "new", senders |-> <<>>],
              !.isInitialized = TRUE,
              !.sc.stale = (p.sc.at # "idle"),
              !.g_quiet = FALSE,
              !.g_last = [NoResult EXCEPT !.op = IF p.pc.has THEN "initialize over" ELSE "initialize"]]

\* addTracks(), and before it the recovery of startPublishing when it throws
publisherAddTracks(p) ==
    LET q == IF p.pc.has THEN p ELSE initialize(p)
        kinds == SelectSeq(<<"audio", "video">>, LAMBDA k : k \in q.localStream.kinds)
        local == [i \in DOMAIN kinds |->
                    [src |-> q.localStream.src, gen |-> q.localStream.gen, kind |-> kinds[i]]]
    IN [q EXCEPT !.pc.senders = @ \o local]

\* pc.onconnectionstatechange
onconnectionstatechange(p, state) ==
    [p EXCEPT !.pc.connectionState = state,
              !.isPublishing = IF state = "connected" THEN TRUE
                               ELSE IF state \in {"disconnected", "failed", "closed"} THEN FALSE
                               ELSE @,
              !.g_last = [NoResult EXCEPT !.op = "connectionstatechange"]]

\* stop()
stop(p) ==
    [p EXCEPT !.stopped = @ \cup tracksOf(p.localStream),
              !.localStream = NoMedia,
              !.pc = NoPeer,
              !.isInitialized = FALSE, !.isPublishing = FALSE,
              !.sc.stale = (p.sc.at # "idle"),
              !.g_quiet = FALSE,
              !.g_last = [NoResult EXCEPT !.op = "stop"]]

\* senders.find(s => s.track?.kind === newTrack.kind), 0 for undefined
findSender(p, newTrack) ==
    LET at == { i \in DOMAIN p.pc.senders : p.pc.senders[i].kind = newTrack.kind }
    IN IF at = {} THEN 0 ELSE FirstFree(at)

\* replaceTrack(newTrack) from "await sender.replaceTrack(newTrack)" on: the
\* function returns nothing, and g_last.result is what its caller gets
replaceTrack(p, sender, newTrack) ==
    [p EXCEPT !.pc.senders = IF sender = 0 THEN @ ELSE [@ EXCEPT ![sender] = newTrack],
              !.g_replace = [result |-> "undefined", found |-> sender # 0, track |-> newTrack]]

\* a function of the store does "await publisher.replaceTrack(track)" and is
\* suspended at `at`
awaitReplace(p, at, stream, kind) ==
    [p EXCEPT !.sc = [at |-> at, stream |-> stream, stale |-> FALSE,
                      sender |-> findSender(p, [src |-> stream.src, gen |-> stream.gen,
                                                kind |-> kind])]]

\* the await is over: the sender, if one was found on the peer connection
\* that is still the current one, carries the track
replaced(p, kind) ==
    replaceTrack(p, IF p.sc.stale THEN 0 ELSE p.sc.sender,
                 [src |-> p.sc.stream.src, gen |-> p.sc.stream.gen, kind |-> kind])

ended(p, op, result) == [p EXCEPT !.sc = NoCall, !.g_last = [op |-> op, result |-> result]]

\* the publisher publishes the camera stream that the store previews, and
\* startPublishing is not under way
Publishing(p) ==
    /\ p.pc.has /\ ~p.capturing
    /\ p.preview = p.localStream /\ p.preview # NoMedia
    /\ Range(p.pc.senders) = tracksOf(p.localStream)
    /\ tracksOf(p.localStream) \cap p.stopped = {}

\* startScreenShare() up to "await media.getScreenShareStream()"
startScreenShare(p) ==
    IF p.isScreenSharing \/ ~p.isPublishing THEN ended(p, "startScreenShare", "skipped")
    ELSE [p EXCEPT !.sc = [NoCall EXCEPT !.at = "getScreenShareStream"],
                   !.g_backup = NoMedia, !.g_quiet = FALSE]

\* Keep reference so we can stop it later and update local preview
screenShareStarted(p) ==
    ended([p EXCEPT !.screenStream = p.sc.stream, !.preview = p.sc.stream,
                    !.isScreenSharing = TRUE],
          "startScreenShare", "started")

\* if (audioTrack) ... else ...
screenShareAudio(p) ==
    IF "audio" \in p.sc.stream.kinds /\ p.pc.has
    THEN awaitReplace(p, "audio", p.sc.stream, "audio")
    ELSE \* no audio track, or replaceTrack throws and the inner catch runs
         screenShareStarted([p EXCEPT !.isScreenShareAudio = FALSE])

\* startScreenShare goes on after an await that settled as how says; kinds
\* are the tracks of the stream the browser gave
startScreenShareResume(p, how, kinds) ==
    CASE p.sc.at = "getScreenShareStream" ->
           IF how # "ok" \/ "video" \notin kinds THEN ended(p, "startScreenShare", "rejected")
           ELSE LET stream == [src |-> "screen", gen |-> p.screens + 1, kinds |-> kinds]
                    p1 == [p EXCEPT !.screens = @ + 1, !.cameraStream = p.preview,
                                    !.g_backup = p.preview, !.g_quiet = Publishing(p)]
                IN IF ~p1.pc.has THEN ended(p1, "startScreenShare", "rejected")
                   ELSE awaitReplace(p1, "video", stream, "video")
      [] p.sc.at = "video" ->
           IF how # "ok" THEN ended(p, "startScreenShare", "rejected")
           ELSE screenShareAudio(replaced(p, "video"))
      [] OTHER ->
           \* res is undefined: reading res.replacedExisting throws, and the
           \* inner catch runs as it does when replaceTrack is rejected
           screenShareStarted([(IF how = "ok" THEN replaced(p, "audio") ELSE p)
                                 EXCEPT !.isScreenShareAudio = FALSE])

screenShareStoppedWithoutPreview(p) ==
    ended([p EXCEPT !.preview = NoMedia, !.cameraStream = NoMedia,
                    !.isScreenSharing = FALSE, !.isScreenShareAudio = FALSE],
          "stopScreenShare", "stopped")

\* Restore local preview to camera stream, and the end of stopScreenShare
screenShareStopped(p) ==
    ended([p EXCEPT !.preview = p.cameraStream, !.cameraStream = NoMedia,
                    !.isScreenSharing = FALSE, !.isScreenShareAudio = FALSE],
          "stopScreenShare", "stopped")

\* if (camAudio) await publisher.replaceTrack(camAudio)
restoreAudio(p) ==
    IF "audio" \notin p.cameraStream.kinds THEN screenShareStopped(p)
    ELSE IF ~p.pc.has THEN ended(p, "stopScreenShare", "rejected")
    ELSE awaitReplace(p, "camAudio", p.cameraStream, "audio")

\* stopScreenShare() up to its first await
stopScreenShare(p) ==
    IF ~p.isScreenSharing THEN ended(p, "stopScreenShare", "skipped")
    ELSE LET p1 == [p EXCEPT !.stopped = @ \cup tracksOf(p.screenStream),
                             !.screenStream = NoMedia]
         IN IF "video" \notin p1.cameraStream.kinds THEN restoreAudio(p1)
            ELSE IF ~p1.pc.has THEN ended(p1, "stopScreenShare", "rejected")
            ELSE awaitReplace(p1, "camVideo", p1.cameraStream, "video")

stopScreenShareResume(p, how) ==
    IF how # "ok" THEN ended(p, "stopScreenShare", "rejected")
    ELSE IF p.sc.at = "camVideo" THEN restoreAudio(replaced(p, "video"))
    ELSE screenShareStopped(replaced(p, "audio"))

-----------------------------------------------------------------------------
(* Initial state: the modules have been loaded, nothing is connected *)

InitChannel ==
    [ws |-> NoSocket, isConnected |-> FALSE, isConnecting |-> FALSE,
     currentWsUrl |-> NoUrl,
     reconnectAttempts |-> 0, reconnectTimeout |-> NoTimer,
     pendingRequests |-> {}, requestTimers |-> {},
     socks |-> [s \in Sockets |-> FreeSocket],
     reqs |-> [r \in Requests |-> FreeRequest],
     messageHandlers |-> [k \in HandlerKeys |-> <<>>],
     g_delays |-> <<>>, g_last |-> "init", g_code |-> 0, g_off |-> FALSE,
     g_msg |-> NoMsg, g_invoked |-> <<>>]

Init ==
    /\ ch = InitChannel
    /\ rs = InitRoom
    /\ co = InitCo
    /\ sb = InitSubscriber
    /\ jr = InitJoinRoom
    /\ pb = InitPublisher

Did(c, what, code) == [c EXCEPT !.g_last = what, !.g_code = code]

\* the state a step starts from
Begin ==
    [c |-> [Did(Collect(ch), "", 0) EXCEPT !.g_msg = NoMsg, !.g_invoked = <<>>],
     r |-> [rs EXCEPT !.g_step = NoStep],
     k |-> co]

\* no function of the store reads participants, remoteStreams, the
\* subscriber's subscriptions or its callbacks to decide what it does: they are followed, with
\* g_pass, what the last pass of syncSubscriptions did from its beginning,
\* where g_maps says so, and left out of the state elsewhere
Maps(r) ==
    IF r.g_maps THEN r
    ELSE [r EXCEPT !.participants = InitRoom.participants,
                   !.remoteStreams = {}, !.subscriptions = {}, !.callbacks = FALSE,
                   !.g_pass = <<>>]

\* the state a step ends in
Commit(End) ==
    \E S \in {End} :
        LET ok == S.r.g_ok /\ S.r.isJoined /\ S.c.isConnected
        IN /\ ch' = S.c
           /\ rs' = [Maps(S.r) EXCEPT !.g_ok = ok,
                                      !.g_trigFeeds = IF ok THEN @ ELSE {},
                                      !.g_sentSince = IF ok THEN @ ELSE FALSE]
           /\ co' = S.k
           /\ sb' = sb
           /\ jr' = jr
           /\ pb' = pb

\* no close event is owed by a socket whose error event has just been handled:
\* both events are dispatched by one task, only promise reactions run between
NoCloseOwed == \A s \in Sockets : ch.socks[s].st # "errored"

\* no promise reaction is ready to run
Quiet == \A n \in CoNames : ~Runnable(ch, co[n])

\* a new task can start
TaskTurn == Quiet /\ NoCloseOwed

-----------------------------------------------------------------------------
(* Steps of the channel: calls of its exported functions by a caller that  *)
(* is not the store, and the events the browser delivers to it             *)

ReplyTypes == {"reply", "error"}

ApiConnect(u) ==
    /\ Quiet
    /\ FreeSockets(Collect(ch)) # {}
    /\ Commit([Begin EXCEPT !.c = [connect(@, u) EXCEPT !.g_off = FALSE]])

ApiDisconnect ==
    /\ Quiet
    /\ Commit([Begin EXCEPT !.c = Did(disconnect(@), "disconnect", 0)])

ApiSendRequest(t) ==
    /\ Quiet
    /\ Cardinality(Issued(Collect(ch))) < MaxApiRequests
    /\ Commit([Begin EXCEPT !.c = sendRequest(@, t)])

SocketOpens(s) ==
    /\ TaskTurn
    /\ ch.socks[s].st = "connecting"
    /\ Commit([Begin EXCEPT
                 !.c = Did(onopen([@ EXCEPT !.socks[s].st = "open"], s), "onopen", 0)])

SocketErrors(s) ==
    /\ TaskTurn
    /\ ch.socks[s].st \in {"connecting", "aborting"}
    /\ Commit([Begin EXCEPT !.c = onerror([@ EXCEPT !.socks[s].st = "errored"], s)])

SocketCloses(s, code) ==
    /\ Quiet
    /\ \/ ch.socks[s].st = "errored" /\ code = 1006
       \/ /\ NoCloseOwed
          /\ \/ ch.socks[s].st = "open" /\ code \in {CLOSE_NORMAL, 1006}
             \/ /\ ch.socks[s].st = "closing"
                /\ code \in {IF ch.socks[s].closeReq = 0 THEN 1005
                             ELSE ch.socks[s].closeReq, 1006}
    /\ Commit([Begin EXCEPT
                 !.c = Did(onclose([@ EXCEPT !.socks[s].st = "closed"], s, code),
                           "onclose", code)])

\* the server answers a request it has received, on the socket it came by
ServerReplies(r, type) ==
    /\ TaskTurn
    /\ ch.reqs[r].sock # NoSocket
    /\ ch.socks[ch.reqs[r].sock].st \in {"open", "closing"}
    /\ Commit([Begin EXCEPT
                 !.c = handleMessage(@, [type |-> type, request_id |-> r])])

RequestTimesOut(r) ==
    /\ TaskTurn
    /\ r \in ch.requestTimers
    /\ Commit([Begin EXCEPT !.c = requestTimeout(@, r)])

ReconnectTimerFires ==
    /\ TaskTurn
    /\ ch.reconnectTimeout.armed
    /\ FreeSockets(Collect(ch)) # {}
    /\ Commit([Begin EXCEPT
                 !.c = Did(connect([@ EXCEPT !.reconnectTimeout = NoTimer],
                                   ch.reconnectTimeout.url),
                           IF ch.reconnectTimeout.g_stale THEN "reconnect-stale"
                           ELSE "reconnect", 0)])

ChannelEvent ==
    \/ \E s \in Sockets : SocketOpens(s)
    \/ \E s \in Sockets : SocketErrors(s)
    \/ \E s \in Sockets, code \in CloseCodes : SocketCloses(s, code)
    \/ \E r \in Requests, type \in ReplyTypes : ServerReplies(r, type)
    \/ \E r \in Requests : RequestTimesOut(r)
    \/ ReconnectTimerFires

NextChannel ==
    \/ \E u \in Urls : ApiConnect(u)
    \/ ApiDisconnect
    \/ \E t \in {"ping"} : ApiSendRequest(t)
    \/ ChannelEvent

SpecChannel == Init /\ [][NextChannel]_vars

(* The channel as a caller that registers handlers drives it, on one       *)
(* connection that stays up                                                *)

Messages == [type : EventTypes \cup {"reply"}, request_id : 0..MaxRequests]

ApiOn(type, handler) ==
    /\ Quiet
    /\ Commit([Begin EXCEPT !.c = on(@, type, handler)])

ApiOff(type, handler) ==
    /\ Quiet
    /\ handler \in Range(ch.messageHandlers[type])
    /\ Commit([Begin EXCEPT !.c = off(@, type, handler)])

\* a frame arrives on socket s; the handlers in throwers throw when called
ServerSends(s, msg, throwers) ==
    /\ TaskTurn
    /\ ch.socks[s].st \in {"open", "closing"}
    /\ Commit([Begin EXCEPT !.c = onmessage(@, msg, throwers)])

NextDispatch ==
    \/ ApiConnect(WsUrl)
    \/ \E s \in Sockets : SocketOpens(s)
    \/ \E t \in {"ping"} : ApiSendRequest(t)
    \/ \E r \in Requests : RequestTimesOut(r)
    \/ \E k \in HandlerKeys, h \in Listeners : ApiOn(k, h)
    \/ \E k \in HandlerKeys, h \in Listeners : ApiOff(k, h)
    \/ \E s \in Sockets, msg \in Messages, throwers \in SUBSET Listeners :
          ServerSends(s, msg, throwers)

SpecDispatch == Init /\ [][NextDispatch]_vars

-----------------------------------------------------------------------------
(* Steps of the subscriber session on its own: calls of its functions, the *)
(* promises of its peer connections settling, and their track events       *)

Subscribe(feedId) ==
    /\ \E p \in Pcs : CollectPcs(sb).pcs[p].st = "free"
    /\ sb' = subscribe(CollectPcs(sb), feedId)
    /\ UNCHANGED <<ch, rs, co, jr, pb>>

\* the promise the call that created pc awaits settles; on a closed peer
\* connection it is rejected
SubscribeResumes(pc, how) ==
    /\ sb.pcs[pc].at \in {"setRemoteDescription", "createAnswer", "setLocalDescription"}
    /\ sb.pcs[pc].st = "closed" => how = "fail"
    /\ sb' = subscribeResume(CollectPcs(sb), pc, how)
    /\ UNCHANGED <<ch, rs, co, jr, pb>>

\* applying the offer fires the track events of pc
TrackArrives(pc, event) ==
    /\ sb.pcs[pc].st = "open"
    /\ sb.pcs[pc].at = "setRemoteDescription"
    /\ sb' = ontrack(CollectPcs(sb), pc, event)
    /\ UNCHANGED <<ch, rs, co, jr, pb>>

Unsubscribe(feedId) ==
    /\ sb' = unsubscribe(CollectPcs(sb), feedId)
    /\ UNCHANGED <<ch, rs, co, jr, pb>>

NextSubscriber ==
    \/ \E f \in FeedKeys : Subscribe(f)
    \/ \E p \in Pcs, how \in {"ok", "fail"} : SubscribeResumes(p, how)
    \/ \E p \in Pcs, e \in TrackEvents : TrackArrives(p, e)
    \/ \E f \in FeedKeys : Unsubscribe(f)

SpecSubscriber == Init /\ [][NextSubscriber]_vars

-----------------------------------------------------------------------------
(* Steps of one run of joinRoom *)

JoinRoomCalled(display) ==
    /\ jr.at = "idle"
    /\ jr' = joinRoomCall(jr, display, "me")
    /\ UNCHANGED <<ch, rs, co, sb, pb>>

JoinedArrives(rest, joinResult) ==
    /\ jr.at = "join_room"
    /\ jr' = joinRoomJoined(jr, rest, joinResult)
    /\ UNCHANGED <<ch, rs, co, sb, pb>>

OfferArrives ==
    /\ jr.at = "subscribe"
    /\ jr' = joinRoomOffer(jr)
    /\ UNCHANGED <<ch, rs, co, sb, pb>>

NextJoinRoom ==
    \/ \E d \in Displays : JoinRoomCalled(d)
    \/ \E rest \in ListsOf(RestParticipants), joinResult \in JoinedResults :
          JoinedArrives(rest, joinResult)
    \/ OfferArrives

SpecJoinRoom == Init /\ [][NextJoinRoom]_vars

-----------------------------------------------------------------------------
(* Steps of the publisher session and of the screen sharing: the store's   *)
(* startPublishing as far as it acts on the publisher, the connection      *)
(* state events of the peer connection, publisher.stop() as cleanup calls  *)
(* it, and startScreenShare and stopScreenShare, one call at a time        *)

Fresh == [pb EXCEPT !.g_last = NoResult, !.g_replace = NoReplace]

\* startPublishing: publisher.initialize(), then "await publisher.startCapture()"
PublishingStarts ==
    /\ ~pb.capturing
    /\ pb.captures < MaxStreams
    /\ pb' = [initialize(Fresh) EXCEPT !.capturing = TRUE]
    /\ UNCHANGED <<ch, rs, co, sb, jr>>

\* getUserMedia settles: localStream.value = stream, publisher.addTracks()
CaptureSettles(how, kinds) ==
    /\ pb.capturing
    /\ kinds # {}
    /\ pb' = IF how # "ok" THEN [Fresh EXCEPT !.capturing = FALSE]
             ELSE LET stream == [src |-> "camera", gen |-> pb.captures + 1, kinds |-> kinds]
                  IN publisherAddTracks([Fresh EXCEPT !.capturing = FALSE, !.captures = @ + 1,
                                                      !.localStream = stream, !.preview = stream,
                                                      !.g_quiet = FALSE])
    /\ UNCHANGED <<ch, rs, co, sb, jr>>

\* the peer connection is negotiated once it has the tracks
ConnectionStateChanges(state) ==
    /\ pb.pc.has
    /\ pb.pc.senders # <<>>
    /\ state # pb.pc.connectionState
    /\ pb' = onconnectionstatechange(Fresh, state)
    /\ UNCHANGED <<ch, rs, co, sb, jr>>

PublisherStops ==
    /\ pb.pc.has \/ pb.localStream # NoMedia
    /\ pb' = stop(Fresh)
    /\ UNCHANGED <<ch, rs, co, sb, jr>>

StartScreenShare ==
    /\ pb.sc.at = "idle"
    /\ pb.screens < MaxStreams
    /\ pb' = startScreenShare(Fresh)
    /\ UNCHANGED <<ch, rs, co, sb, jr>>

\* sender.replaceTrack() of a peer connection that was closed is rejected
StartScreenShareResumes(how, kinds) ==
    /\ pb.sc.at \in {"getScreenShareStream", "video", "audio"}
    /\ (pb.sc.stale /\ pb.sc.sender # 0) => how = "fail"
    /\ pb.sc.at # "getScreenShareStream" => kinds = {}
    /\ pb' = startScreenShareResume(Fresh, how, kinds)
    /\ UNCHANGED <<ch, rs, co, sb, jr>>

StopScreenShare ==
    /\ pb.sc.at = "idle"
    /\ pb' = stopScreenShare(Fresh)
    /\ UNCHANGED <<ch, rs, co, sb, jr>>

StopScreenShareResumes(how) ==
    /\ pb.sc.at \in {"camVideo", "camAudio"}
    /\ (pb.sc.stale /\ pb.sc.sender # 0) => how = "fail"
    /\ pb' = stopScreenShareResume(Fresh, how)
    /\ UNCHANGED <<ch, rs, co, sb, jr>>

(* remote_candidate: the handler of the store hands the candidate to the   *)
(* subscriber session or to the publisher session.  feed_id is the value   *)
(* of the payload as it came, NoFeedId when the payload has none.          *)

\* addIceCandidate(feedId, candidate) of the subscriber: the map is read
\* with the feed id as it is given
subscriberAddIceCandidate(b, feedId) ==
    LET subscription == IF feedId \in FeedKeys THEN b.subscriptions[feedId] ELSE NoPc
    IN [b EXCEPT !.g_last = [NoOp EXCEPT !.op = "addIceCandidate", !.feed = feedId,
                                         !.pc = subscription]]

\* addIceCandidate(candidate) of the publisher
publisherAddIceCandidate(p) ==
    [p EXCEPT !.g_last = [op |-> "addIceCandidate",
                          result |-> IF p.pc.has THEN "applied" ELSE "threw"]]

\* if (payload.feed_id)
hasFeedId(feed_id) == feed_id # NoFeedId

\* signaling.on('remote_candidate', ...)
onRemoteCandidate(b, p, feed_id) ==
    IF hasFeedId(feed_id)
    THEN [b |-> subscriberAddIceCandidate(b, feed_id), p |-> p]
    ELSE [b |-> [b EXCEPT !.g_last = [NoOp EXCEPT !.op = "notCalled", !.feed = feed_id]],
          p |-> publisherAddIceCandidate(p)]

RemoteCandidateArrives(feed_id) ==
    /\ LET after == onRemoteCandidate(CollectPcs(sb), Fresh, feed_id)
       IN sb' = after.b /\ pb' = after.p
    /\ UNCHANGED <<ch, rs, co, jr>>

NextCandidate ==
    \/ \E f \in FeedKeys : Subscribe(f)
    \/ \E p \in Pcs, how \in {"ok", "fail"} : SubscribeResumes(p, how)
    \/ \E f \in FeedKeys : Unsubscribe(f)
    \/ PublishingStarts
    \/ PublisherStops
    \/ \E feed_id \in FeedIds \cup {NoFeedId} : RemoteCandidateArrives(feed_id)

SpecCandidate == Init /\ [][NextCandidate]_vars

NextScreenShare ==
    \/ PublishingStarts
    \/ \E how \in {"ok", "fail"}, kinds \in SUBSET Kinds : CaptureSettles(how, kinds)
    \/ \E state \in {"connecting", "connected", "disconnected", "failed"} :
          ConnectionStateChanges(state)
    \/ PublisherStops
    \/ StartScreenShare
    \/ \E how \in {"ok", "fail"}, kinds \in SUBSET Kinds : StartScreenShareResumes(how, kinds)
    \/ StopScreenShare
    \/ \E how \in {"ok", "fail"} : StopScreenShareResumes(how)

SpecScreenShare == Init /\ [][NextScreenShare]_vars

\* the network fails a connection only while fewer than MaxDrops reconnects
\* are being counted
DropAllowed == ch.reconnectAttempts < MaxDrops

StoreChannelEvent ==
    \/ \E s \in Sockets : SocketOpens(s)
    \/ \E s \in Sockets :
          /\ ch.socks[s].st = "connecting" => DropAllowed
          /\ SocketErrors(s)
    \/ \E s \in Sockets, code \in CloseCodes :
          /\ (ch.socks[s].st # "errored" /\ code = 1006) => DropAllowed
          /\ SocketCloses(s, code)
    \/ \E r \in Requests, type \in ReplyTypes : ServerReplies(r, type)
    \/ \E r \in Requests : RequestTimesOut(r)
    \/ ReconnectTimerFires

-----------------------------------------------------------------------------
(* Steps of the store: calls of its actions by the page, the messages the  *)
(* server pushes, the promises of the browser and of the REST client, and  *)
(* the store's async functions going on after an await                     *)

JoinRoom ==
    /\ TaskTurn
    /\ co.join.pc = "idle"
    /\ rs.handlers < MaxHandlers
    /\ Commit(joinRoom(Begin))

LeaveRoom ==
    /\ TaskTurn
    /\ co.leave.pc = "idle"
    /\ Commit(leaveRoom(Begin))

StartPublishing ==
    /\ TaskTurn
    /\ Commit(startPublishing(Begin))

SubscribeToPublisher ==
    /\ TaskTurn
    /\ Commit(callSync(Begin, {}))

\* a message that answers no request arrives on a socket whose onmessage is
\* set; the server does not announce a feed the store has under another user
ServerPushes(s, msg) ==
    /\ TaskTurn
    /\ ch.socks[s].st \in {"open", "closing"}
    /\ rs.handlers > 0
    /\ msg.type = "publisher_joined" =>
          rs.publishers[String(msg.feed_id)] \in {NoPublisher, msg.user_id}
    /\ Commit(dispatch(Begin, msg, rs.handlers))

\* getUserMedia, createOffer, setRemoteDescription, the 50 ms timer, the REST
\* calls and subscribeMultiple settle, and the function that awaits goes on in
\* the same task; getUserMedia's stream is stored by the publisher first
PromiseSettles(who, how) ==
    /\ TaskTurn
    /\ co[who].wait = "pending"
    /\ co[who].pc = "tick" => how = "ok"
    /\ (who = "join" /\ co.join.pc = "apiJoin" /\ how = "ok") => FreeSockets(Collect(ch)) # {}
    /\ LET S == [Begin EXCEPT
                   !.k[who].wait = how,
                   !.r.pubStream = IF who = "publish" /\ co.publish.pc = "capture" /\ how = "ok"
                                   THEN TRUE ELSE @]
       IN Commit(CASE who = "join" -> joinResume(S, [k \in FeedKeys |-> NoPublisher])
                   [] who = "leave" -> leaveResume(S)
                   [] who = "publish" -> publishResume(S)
                   [] OTHER -> syncResume(S, "throws"))

JoinResumes(payload) ==
    /\ Runnable(ch, co.join)
    /\ Commit(joinResume(Begin, payload))

LeaveResumes ==
    /\ Runnable(ch, co.leave)
    /\ Commit(leaveResume(Begin))

PublishResumes ==
    /\ Runnable(ch, co.publish)
    /\ Commit(publishResume(Begin))

SyncResumes(sm) ==
    /\ Runnable(ch, co.sync)
    /\ Commit(syncResume(Begin, sm))

\* pc.ontrack of a subscription: if (onRemoteStreamCallback) it is called,
\* and the callback of the store puts the stream into remoteStreams
onRemoteStream(S0, feedId) ==
    Once({ [v |->
            IF S.r.callbacks
            THEN [S EXCEPT !.r.remoteStreams = @ \cup {feedId}, !.r.g_step.event = "track"]
            ELSE [S EXCEPT !.r.g_step.event = "track dropped"]
           ] : S \in {S0} })

\* pc.onicecandidate of a subscription: if (onIceCandidateCallback) it is
\* called, and the callback of the store sends trickle_ice
onIceCandidate(S0, feedId) ==
    Once({ [v |->
            IF S.r.callbacks
            THEN [S EXCEPT !.r.g_step.event = IF send(S.c) \in {"sent", "discarded"}
                                              THEN "trickle_ice" ELSE "trickle_ice threw"]
            ELSE [S EXCEPT !.r.g_step.event = "candidate dropped"]
           ] : S \in {S0} })

\* a peer connection of the subscriber reports a track of a feed
RemoteStreamArrives(feedId) ==
    /\ TaskTurn
    /\ feedId \in rs.subscriptions \ rs.remoteStreams
    /\ Commit(onRemoteStream(Begin, feedId))

\* a peer connection of the subscriber reports an ICE candidate
IceCandidateFound(feedId) ==
    /\ TaskTurn
    /\ feedId \in rs.subscriptions
    /\ Commit(onIceCandidate(Begin, feedId))

(* The store as the page of a participant who does not publish drives it *)
Next ==
    \/ JoinRoom
    \/ LeaveRoom
    \/ SubscribeToPublisher
    \/ \E s \in Sockets, msg \in PushMessages : ServerPushes(s, msg)
    \/ \E who \in CoNames, how \in {"ok", "fail"} : PromiseSettles(who, how)
    \/ \E payload \in JoinedPayloads : JoinResumes(payload)
    \/ LeaveResumes
    \/ \E sm \in {"throws", "suspends"} : SyncResumes(sm)
    \/ StoreChannelEvent

Spec == Init /\ [][Next]_vars

(* The store with its maps of participants, remote streams and             *)
(* subscriptions, as joinRoom, the server's pushes and replies, and the    *)
(* subscriber session drive it                                             *)
InitSync ==
    /\ ch = InitChannel
    /\ rs = [InitRoom EXCEPT !.g_maps = TRUE]
    /\ co = InitCo
    /\ sb = InitSubscriber
    /\ jr = InitJoinRoom
    /\ pb = InitPublisher

NextSync ==
    \/ JoinRoom
    \/ \E s \in Sockets, msg \in PushMessages : ServerPushes(s, msg)
    \/ \E who \in CoNames, how \in {"ok", "fail"} : PromiseSettles(who, how)
    \/ \E payload \in JoinedPayloads : JoinResumes(payload)
    \/ \E sm \in {"throws", "suspends"} : SyncResumes(sm)
    \/ \E feedId \in FeedKeys : RemoteStreamArrives(feedId)
    \/ \E feedId \in FeedKeys : IceCandidateFound(feedId)
    \/ StoreChannelEvent

SpecSync == InitSync /\ [][NextSync]_vars

\* joinRoom is called again after the store has left; setupSignalingHandlers
\* has run at most MaxJoins times
JoinRoomAgain ==
    /\ TaskTurn
    /\ co.join.pc = "idle"
    /\ rs.handlers < MaxJoins
    /\ Commit(joinRoom(Begin))

\* the room is empty when the store joins, and one user publishes one feed
NextRejoin ==
    \/ JoinRoomAgain
    \/ LeaveRoom
    \/ \E s \in Sockets, msg \in { m \in PushMessages : m.feed_id.n = 7 /\ m.user_id # "me" } :
          ServerPushes(s, msg)
    \/ \E who \in CoNames, how \in {"ok", "fail"} : PromiseSettles(who, how)
    \/ JoinResumes([k \in FeedKeys |-> NoPublisher])
    \/ LeaveResumes
    \/ \E sm \in {"throws", "suspends"} : SyncResumes(sm)
    \/ StoreChannelEvent

SpecRejoin == Init /\ [][NextRejoin]_vars

(* The store as the page of a participant who publishes drives it, in a    *)
(* room where nobody else starts or stops publishing meanwhile             *)
NextPublish ==
    \/ JoinRoom
    \/ LeaveRoom
    \/ StartPublishing
    \/ \E who \in CoNames, how \in {"ok", "fail"} : PromiseSettles(who, how)
    \/ \E payload \in JoinedPayloads : JoinResumes(payload)
    \/ LeaveResumes
    \/ PublishResumes
    \/ \E sm \in {"throws", "suspends"} : SyncResumes(sm)
    \/ StoreChannelEvent

SpecPublish == Init /\ [][NextPublish]_vars

(* Spec with the scheduling the event loop and its timers give: a promise  *)
(* reaction that is ready runs, a close event that is owed is dispatched,  *)
(* a request's timeout fires, and the promise of subscribeMultiple settles *)
Fairness ==
    /\ WF_vars(\E payload \in JoinedPayloads : JoinResumes(payload))
    /\ WF_vars(LeaveResumes)
    /\ WF_vars(\E sm \in {"throws", "suspends"} : SyncResumes(sm))
    /\ WF_vars(\E s \in Sockets : ch.socks[s].st = "errored" /\ SocketCloses(s, 1006))
    /\ \A r \in Requests : SF_vars(RequestTimesOut(r))
    /\ SF_vars(\E how \in {"ok", "fail"} : PromiseSettles("sync", how))

SpecLive == Spec /\ Fairness

-----------------------------------------------------------------------------
(* Properties of the signaling channel *)

Unsettled(c) == { r \in Issued(c) : ~Settled(c, r) }

LiveSockets(c) == { s \in Sockets : Live(c.socks[s]) }

\* a socket object comes into being in this step
SocketCreated == \E s \in Sockets : ch'.socks[s].st = "connecting" /\ ch.socks[s].st # "connecting"

\* the close event of the socket the channel holds, which was open
HeldSocketCloses ==
    /\ ch.ws # NoSocket
    /\ ch.socks[ch.ws].st = "open"
    /\ ch'.socks[ch.ws].st = "closed"

(* C4: every request is settled exactly once: no request ever receives a   *)
(* second settlement, and a request that is not settled yet still has its  *)
(* pending entry and its timeout, so it will be.                           *)
C4_SettledExactlyOnce ==
    \A r \in Issued(ch) :
        /\ Len(ch.reqs[r].calls) <= 1
        /\ ~Settled(ch, r) => r \in ch.pendingRequests /\ r \in ch.requestTimers

(* C5: when the held socket closes abnormally (code 1006) while two        *)
(* requests are pending, both are rejected with the disconnected error and *)
(* a reconnect is scheduled.                                               *)
C5_AbnormalCloseRejectsPending ==
    [][ (/\ HeldSocketCloses
         /\ ch'.g_code = 1006
         /\ Cardinality(ch.pendingRequests) = 2)
        => /\ \A r \in ch.pendingRequests : "disconnected" \in Range(ch'.reqs[r].calls)
           /\ ch'.reconnectTimeout.armed ]_vars

(* C7: after disconnect() no reconnect timer is armed, the socket that was *)
(* held has been closed with code 1000 and is no longer referenced,        *)
(* isConnected is false, the pending map is empty, and every request that  *)
(* was in it has been rejected with the disconnected error.                *)
C7_DisconnectLeavesNothing ==
    [][ ch'.g_last = "disconnect"
        => /\ ~ch'.reconnectTimeout.armed
           /\ ch'.ws = NoSocket
           /\ ch.ws # NoSocket =>
                 /\ ~Live(ch'.socks[ch.ws])
                 /\ Live(ch.socks[ch.ws]) => ch'.socks[ch.ws].closeReq = CLOSE_NORMAL
           /\ ~ch'.isConnected
           /\ ch'.pendingRequests = {}
           /\ \A r \in ch.pendingRequests :
                 /\ "disconnected" \in Range(ch'.reqs[r].calls)
                 /\ ~Settled(ch, r) => ch'.reqs[r].calls = <<"disconnected">> ]_vars

C7_Witness ==
    /\ ch.g_last = "disconnect"
    /\ Cardinality({ r \in Requests : ch.reqs[r].calls = <<"disconnected">> }) >= 2
    /\ \E s \in Sockets : ch.socks[s].st = "closing" /\ ch.socks[s].closeReq = CLOSE_NORMAL

(* C8: between a disconnect() and the next explicit connect() no socket is *)
(* created, whatever close events and timers come in between; and at no    *)
(* time are two sockets of the channel connecting or open.                 *)
C8_NoSocketAfterDisconnect ==
    /\ [](Cardinality(LiveSockets(ch)) <= 1)
    /\ [][ (ch.g_off /\ ch'.g_off) => ~SocketCreated ]_vars

C8_Witness ==
    /\ ch.g_off
    /\ ch.g_last = "onclose"
    /\ ch.g_code # CLOSE_NORMAL
    /\ ch.reconnectAttempts > 0

(* C9: connect(url) while connected to the same normalized url changes     *)
(* nothing; and the late close event of a socket that connect() has        *)
(* replaced neither leads to a reconnect that opens another socket nor     *)
(* leaves more than one live connection.                                   *)
C9_ConnectToleratesStaleClose ==
    /\ [](\A u \in Urls :
             (ch.isConnected /\ ch.currentWsUrl = normalizedUrl(u)) => connect(ch, u) = ch)
    /\ [](Cardinality(LiveSockets(ch)) <= 1)
    /\ [][ ch'.g_last = "reconnect-stale" => ~SocketCreated ]_vars

(* C10: the delays scheduled since the last successful open are, in order, *)
(* 1000, 2000, 4000, 8000, 16000 ms, each min(1000 * 2^attempt, 30000);    *)
(* a successful open sets the attempt counter to 0, so the closure after   *)
(* it schedules 1000 ms again.                                             *)
C10_BackoffSequence ==
    /\ Len(ch.g_delays) = ch.reconnectAttempts
    /\ \A i \in DOMAIN ch.g_delays :
          /\ ch.g_delays[i] = <<1000, 2000, 4000, 8000, 16000>>[i]
          /\ ch.g_delays[i] = Min(1000 * Pow2(i - 1), 30000)
    /\ (ch.reconnectTimeout.armed /\ ch.g_delays # <<>>)
          => ch.reconnectTimeout.delay = ch.g_delays[Len(ch.g_delays)]
    /\ ch.g_last = "onopen" => ch.reconnectAttempts = 0

C10_Witness ==
    /\ ch.g_delays = <<1000, 2000, 4000, 8000, 16000>>
    /\ ch.reconnectTimeout.armed
    /\ ch.reconnectTimeout.delay = 16000

-----------------------------------------------------------------------------
(* Properties of the room store *)

\* the requests of a type that are outstanding
Outstanding(c, type) ==
    { r \in Issued(c) : /\ c.reqs[r].type = type
                        /\ r \in c.pendingRequests \/ ~Settled(c, r) }

\* the requests of a type that this step registers and sends
Sent(type) ==
    { r \in Requests : /\ ch'.reqs[r].type = type
                       /\ ~Settled(ch', r)
                       /\ r \in ch'.pendingRequests
                       /\ ch.reqs[r].type = "" \/ Settled(ch, r) }

\* no pass of syncSubscriptions is in flight and none is owed
Quiescent ==
    /\ ~rs.subscriptionSyncInProgress
    /\ ~rs.subscriptionSyncPending
    /\ co.sync.pc = "idle"

(* C1: at most one subscribe request is outstanding, the request that is   *)
(* outstanding is the one the pass in flight awaits, and a step that sends *)
(* a subscribe request sends one, from a pass, with the flag set.          *)
C1_OneSubscribeOutstanding ==
    /\ [](/\ Cardinality(Outstanding(ch, "subscribe")) <= 1
          /\ Outstanding(ch, "subscribe") # {} =>
                /\ rs.subscriptionSyncInProgress
                /\ co.sync.pc = "request"
                /\ co.sync.req \in Outstanding(ch, "subscribe"))
    /\ [][ Sent("subscribe") # {} =>
              /\ Sent("subscribe") = {co'.sync.req}
              /\ rs'.subscriptionSyncInProgress ]_vars

C1_Witness ==
    /\ Outstanding(ch, "subscribe") # {}
    /\ rs.subscriptionSyncPending
    /\ rs.g_during = 2

(* C2 as stated: once the store is quiescent, having stayed joined and     *)
(* connected since the last call of syncSubscriptions, the last subscribe  *)
(* request sent carried the feeds of the publishers, own excluded, as they *)
(* were at that call.                                                      *)
C2_LastSubscribeCarriesLastTrigger ==
    (Quiescent /\ rs.g_ok /\ rs.g_lastSub.sent) => rs.g_lastSub.feeds = rs.g_trigFeeds

(* C2 amended: when calls of syncSubscriptions stop coming the store       *)
(* becomes quiescent for good; and once it is quiescent, having stayed     *)
(* joined and connected since the last call, then if the publishers, own   *)
(* excluded, were not empty at that call, a subscribe request was sent at  *)
(* or after it and the last one sent carried exactly their feeds, and if   *)
(* they were empty no subscribe request was sent at or after it.           *)
C2_EventuallyInSync ==
    /\ []((Quiescent /\ rs.g_ok) =>
             IF rs.g_trigFeeds # {}
             THEN rs.g_sentSince /\ rs.g_lastSub = [sent |-> TRUE, feeds |-> rs.g_trigFeeds]
             ELSE ~rs.g_sentSince)
    /\ (<>[](~rs.g_step.called) => <>[]Quiescent)

C2_Witness ==
    /\ Quiescent
    /\ rs.g_ok
    /\ rs.g_trigFeeds = FeedKeys
    /\ rs.g_lastSub.feeds = FeedKeys
    /\ rs.g_step.follow = "none"

(* C3: the pending flag is only set while a pass is in flight; a call made *)
(* while a pass is in flight sends nothing, starts nothing and leaves the  *)
(* pending flag set; a pass that calls came in during, however many, is    *)
(* followed by one re-run of syncSubscriptions, which is a pass when the   *)
(* store is still joined and connected; a pass that no call came in during *)
(* is followed by none.                                                    *)
C3_CoalescedCallsOneFollowUp ==
    /\ [](rs.subscriptionSyncPending => rs.subscriptionSyncInProgress)
    /\ [][ (rs.subscriptionSyncInProgress /\ rs'.g_step.called /\ rs'.g_step.follow = "") =>
              /\ Sent("subscribe") = {}
              /\ co'.sync = co.sync
              /\ rs'.subscriptionSyncInProgress
              /\ rs'.subscriptionSyncPending ]_vars
    /\ [][ rs'.g_step.follow # "" =>
              /\ (rs.g_during > 0) <=> (rs'.g_step.follow # "none")
              /\ rs'.g_step.follow = "pass" =>
                    /\ Cardinality(Sent("subscribe")) = 1
                    /\ rs'.subscriptionSyncInProgress
                    /\ ~rs'.subscriptionSyncPending
              /\ rs'.g_step.follow # "pass" =>
                    /\ Sent("subscribe") = {}
                    /\ ~rs'.subscriptionSyncInProgress
                    /\ ~rs'.subscriptionSyncPending
                    /\ co'.sync.pc = "idle"
              /\ (rs.g_during > 0 /\ rs.isJoined /\ ch.isConnected) =>
                    rs'.g_step.follow \in {"pass", "empty"} ]_vars

C3_Witness ==
    /\ rs.g_step.follow = "pass"
    /\ rs.g_step.n = 2
    /\ Outstanding(ch, "subscribe") # {}

(* C6: a call of startPublishing made while an earlier call is in progress *)
(* changes nothing; at most one publish_offer request is outstanding, one  *)
(* call sends at most one, and has sent one when it gets past the offer.   *)
C6_SecondStartPublishingIsNoop ==
    /\ [][ (rs.startPublishingInProgress /\ rs'.g_step.publish) =>
              /\ Code(rs') = Code(rs)
              /\ co' = co
              /\ ch' = Did(Collect(ch), "", 0) ]_vars
    /\ [](Cardinality(Outstanding(ch, "publish_offer")) <= 1)
    /\ [](rs.startPublishingInProgress => rs.g_offers <= 1)
    /\ [](co.publish.pc \in {"answer", "sync"} => rs.g_offers = 1)

C6_Witness ==
    /\ rs.g_step.publish
    /\ co.publish.pc = "request"
    /\ rs.g_offers = 1
    /\ Outstanding(ch, "publish_offer") # {}

-----------------------------------------------------------------------------
(* Further properties of the signaling channel *)

\* the reconnects are used up and nothing is left that could bring an event
Exhausted(c) ==
    /\ c.reconnectAttempts = MAX_RECONNECT_ATTEMPTS
    /\ ~c.reconnectTimeout.armed
    /\ \A s \in Sockets : c.socks[s].st \in {"free", "closed"}

(* C11: the attempt counter never exceeds 5; once five reconnects have     *)
(* been counted and the last attempt has failed, the channel is neither    *)
(* connected nor connecting, has no timer, and stays so, creating no       *)
(* socket, until connect() is called; a close with code 1000 schedules no  *)
(* reconnect.                                                              *)
C11_ReconnectsAreCapped ==
    /\ [](ch.reconnectAttempts <= 5)
    /\ [](Exhausted(ch) => ~ch.isConnected /\ ~ch.isConnecting)
    /\ [][ (Exhausted(ch) /\ ~Exhausted(ch')) =>
              /\ SocketCreated
              /\ ch'.g_last = "" ]_vars
    /\ [][ (ch'.g_last = "onclose" /\ ch'.g_code = CLOSE_NORMAL) =>
              /\ ch'.reconnectTimeout = ch.reconnectTimeout
              /\ ch'.reconnectAttempts = ch.reconnectAttempts ]_vars

C11_Witness ==
    /\ Exhausted(ch)
    /\ ch.g_last = "onclose"
    /\ ch.g_code = 1006
    /\ ch.g_delays = <<1000, 2000, 4000, 8000, 16000>>

(* C12: a request is resolved, or rejected with a server error, only by    *)
(* the message that carries its own id, whatever the order the replies     *)
(* come in; a reply changes no other request.                              *)
C12_RepliesMatchedById ==
    /\ [](\A r \in Issued(ch) :
             /\ ch.reqs[r].g_reply \in {0, r}
             /\ (Range(ch.reqs[r].calls) \cap {"resolved", "servererror"} # {})
                   => ch.reqs[r].g_reply = r)
    /\ [][ \A r \in Requests :
              (ch'.reqs[r].g_reply = r /\ ch.reqs[r].g_reply = 0) =>
                  \A q \in Requests \ {r} :
                      q \in ch.pendingRequests =>
                          /\ q \in ch'.pendingRequests
                          /\ ch'.reqs[q].calls = ch.reqs[q].calls ]_vars

C12_Witness ==
    /\ ch.reqs[2].calls = <<"resolved">>
    /\ ch.reqs[2].g_reply = 2
    /\ 1 \in ch.pendingRequests
    /\ ch.reqs[1].calls = <<>>
    /\ ch.reqs[1].sock # NoSocket

(* C16: a request's pending entry exists exactly while the request is      *)
(* unsettled; the timeout of a request rejects it and removes its entry in *)
(* the same step; and a request rejected by its timeout is not settled     *)
(* again, whatever arrives later.                                          *)
C16_PendingExactlyWhileUnsettled ==
    /\ [](\A r \in Issued(ch) : r \in ch.pendingRequests <=> ~Settled(ch, r))
    /\ [][ \A r \in Requests :
              ("timeout" \in Range(ch'.reqs[r].calls) /\ "timeout" \notin Range(ch.reqs[r].calls))
                 => /\ ch'.reqs[r].calls = <<"timeout">>
                    /\ r \in ch.pendingRequests
                    /\ r \notin ch'.pendingRequests ]_vars
    /\ [][ \A r \in Requests :
              ch.reqs[r].calls = <<"timeout">>
                 => ch'.reqs[r].calls = <<"timeout">> \/ r \notin Issued(Collect(ch)) ]_vars

-----------------------------------------------------------------------------
(* Properties of the channel's event dispatch *)

\* the message this step handles answers a pending request
AnswersPending ==
    /\ ch'.g_msg.request_id # 0
    /\ ch'.g_msg.request_id \in ch.pendingRequests

\* the calls of g_invoked made under a key
CallsUnder(c, key) == SelectSeq(c.g_invoked, LAMBDA e : e.key = key)

\* the handlers of a key as calls that all returned
AllOf(c, key) == Under(key, [called |-> handlersOf(c, key), threw |-> FALSE])

Returned(calls) == [i \in DOMAIN calls |-> [calls[i] EXCEPT !.threw = FALSE]]

(* C13: every message that is handled is given once to each handler        *)
(* registered under '*', also a message that answers a pending request.    *)
C13_WildcardReceivesEveryMessage ==
    [][ ch'.g_msg # NoMsg =>
           Returned(CallsUnder(ch', Wildcard)) = AllOf(ch, Wildcard) ]_vars

(* C14: the handlers of a message's type are called in the order they were *)
(* registered in, and when one of them throws the handlers after it and    *)
(* the wildcard handlers are called all the same.                          *)
C14_FailingHandlerBlocksNobody ==
    [][ (ch'.g_msg # NoMsg /\ ~AnswersPending) =>
           Returned(ch'.g_invoked) = AllOf(ch, ch'.g_msg.type) \o AllOf(ch, Wildcard) ]_vars

(* C15: an error message that answers a pending request rejects that       *)
(* request with the server's error, with its pending entry and its timeout *)
(* gone, and no handler is called; an error message that answers none      *)
(* settles no request and goes to the handlers of 'error', in order, all   *)
(* of them when none throws.                                               *)
C15_ErrorReplyRejectsOrDispatches ==
    [][ ch'.g_msg.type = "error" =>
           LET r == ch'.g_msg.request_id
               error == CallsUnder(ch', "error")
           IN IF AnswersPending
              THEN /\ r \notin ch'.pendingRequests
                   /\ r \notin ch'.requestTimers
                   /\ ch'.reqs[r].calls = Append(ch.reqs[r].calls, "servererror")
                   /\ ch'.reqs[r].g_reply = r
                   /\ ch'.g_invoked = <<>>
                   /\ \A q \in ch.pendingRequests \ {r} :
                         q \in ch'.pendingRequests /\ ch'.reqs[q].calls = ch.reqs[q].calls
              ELSE /\ ch'.pendingRequests = ch.pendingRequests
                   /\ ch'.requestTimers = ch.requestTimers
                   /\ \A q \in Requests : ch'.reqs[q].calls \in {ch.reqs[q].calls, <<>>}
                   /\ error = SubSeq(ch'.g_invoked, 1, Len(error))
                   /\ Returned(error) = SubSeq(AllOf(ch, "error"), 1, Len(error))
                   /\ ch.messageHandlers["error"] # <<>> => error # <<>>
                   /\ (\A i \in DOMAIN error : ~error[i].threw) =>
                         error = AllOf(ch, "error") ]_vars

C15_Witness ==
    /\ ch.g_msg.type = "error"
    /\ ch.g_msg.request_id = 1
    /\ ch.reqs[1].calls = <<"servererror">>
    /\ Len(ch.messageHandlers["error"]) = 2
    /\ ch.g_invoked = <<>>


-----------------------------------------------------------------------------
(* Properties of the subscriber session *)

\* the open peer connections created for a feed
OpenPcs(b, feedId) == { p \in Pcs : b.pcs[p].st = "open" /\ b.pcs[p].feed = feedId }

\* the step is a call of subscribe() for a feed that had a subscription
Resubscribed(feedId) ==
    /\ sb'.g_last.op = "subscribe" /\ sb'.g_last.feed = feedId
    /\ sb' # sb
    /\ CollectPcs(sb).subscriptions[feedId] # NoPc

(* C17: the subscriber never has two open peer connections for one feed,   *)
(* and a subscribe() for a feed that already has a subscription closes the *)
(* previous peer connection, so that afterwards exactly the new peer       *)
(* connection is open for the feed.                                        *)
C17_ResubscribeReplacesPc ==
    [][\A f \in FeedKeys :
          /\ Cardinality(OpenPcs(sb', f)) <= 1
          /\ Resubscribed(f) =>
                /\ sb'.pcs[CollectPcs(sb).subscriptions[f]].st # "open"
                /\ OpenPcs(sb', f) = {sb'.g_last.pc}]_vars

\* the step is a call of unsubscribe() for the feed
Unsubscribed(feedId) ==
    sb'.g_last.op = "unsubscribe" /\ sb'.g_last.feed = feedId /\ sb' # sb

\* every track of the stream of the subscription that sb holds under pc is stopped
TracksStopped(b, pc) ==
    pc # NoPc => Range(b.pcs[pc].remoteStream.tracks) \subseteq b.pcs[pc].stopped

(* C18: right after unsubscribe(feedId), getRemoteStream(feedId) is null,  *)
(* the feed has no entry in the subscriptions map, no peer connection of   *)
(* the feed is open and the tracks of the removed subscription are         *)
(* stopped, whatever await the subscribe() calls of the feed are at.       *)
C18_UnsubscribeRemovesFeed ==
    [][\A f \in FeedKeys :
          Unsubscribed(f) =>
             /\ getRemoteStream(sb', f) = NoStream
             /\ sb'.subscriptions[f] = NoPc
             /\ OpenPcs(sb', f) = {}
             /\ TracksStopped(sb', sb'.g_last.pc)]_vars

(* C19: the stream aggregated for a subscription never holds two tracks    *)
(* with the same id, and it holds every track id its peer connection has   *)
(* delivered in a track event, however often the events repeat.            *)
C19_StreamHasEachTrackOnce ==
    \A p \in Pcs :
       sb.pcs[p].st # "free" =>
          /\ Cardinality(Range(sb.pcs[p].remoteStream.tracks)) = Len(sb.pcs[p].remoteStream.tracks)
          /\ sb.pcs[p].g_delivered \subseteq Range(sb.pcs[p].remoteStream.tracks)

\* a track event repeated a track of a stream that holds every track
C19_Witness ==
    /\ sb.g_last.op = "ontrack" /\ sb.g_last.dup
    /\ sb.pcs[sb.g_last.pc].g_delivered = TrackIds
    /\ Len(sb.pcs[sb.g_last.pc].remoteStream.tracks) = Cardinality(TrackIds)

-----------------------------------------------------------------------------
(* Properties of joinRoom *)

\* the publisher of the scenario, as the joined payload lists it
Bob == [feed_id |-> [n |-> 7, rep |-> "number"], display |-> "Bob", user_id |-> "u2"]

\* joinRoom as Alice has completed on a joined reply that lists Bob alone
JoinedAsAliceWithBob ==
    /\ jr.at = "joined"
    /\ jr.displayName = "Alice"
    /\ jr.g_joined.publishers = <<Bob>>

\* the requests of a type that the run has sent
SentOf(type) == SelectSeq(jr.sent, LAMBDA m : m.type = type)

(* C20: when joinRoom as Alice has completed on a joined reply that lists  *)
(* the one publisher Bob with feed 7, participants holds Alice, not        *)
(* publishing, and Bob, publishing; publishers holds Bob alone, under feed *)
(* 7; and one subscribe request was sent, with feeds = [{feed_id: 7}].     *)
C20_JoinWithOnePublisher ==
    JoinedAsAliceWithBob =>
       /\ \E i \in DOMAIN jr.participants :
             jr.participants[i] = [key |-> jr.userId, value |-> participant(jr.userId, "Alice", FALSE)]
       /\ \E i \in DOMAIN jr.participants :
             jr.participants[i] = [key |-> Bob.user_id, value |-> participant(Bob.user_id, "Bob", TRUE)]
       /\ Len(jr.publishers) = 1
       /\ jr.publishers[1].key = String(Bob.feed_id)
       /\ jr.publishers[1].value.display = "Bob"
       /\ SentOf("subscribe") = <<[type |-> "subscribe", feeds |-> <<[feed_id |-> Bob.feed_id]>>]>>

-----------------------------------------------------------------------------
(* Properties of joinRoom and leaveRoom in the store *)

\* nothing of a session is live in the store or in the channel
TornDown(c, r) ==
    /\ ~r.isJoined
    /\ r.userId = NoUser /\ ~r.token
    /\ \A k \in FeedKeys : r.publishers[k] = NoPublisher
    /\ ~r.pubInit /\ ~r.pubStream
    /\ c.ws = NoSocket /\ ~c.isConnected
    /\ ~c.reconnectTimeout.armed

\* the step is the one in which joinRoom rejects
JoinRoomRejects == co.join.pc = "failed" /\ co'.join.pc = "idle"

LeaveRoomEnds == rs'.g_step.left # ""

-----------------------------------------------------------------------------
(* Properties of the publisher session and of screen sharing *)

\* a call of replaceTrack returned in the step, on the peer connection it began on
ReplaceTrackReturned == pb'.g_replace.result # "" /\ ~pb.sc.stale

\* the senders after replaceTrack: the sender that was found when it was
\* called carries the track, and the others are as before
SendersAfterReplace ==
    IF pb'.g_replace.found
    THEN /\ pb.sc.sender \in DOMAIN pb.pc.senders
         /\ pb.pc.senders[pb.sc.sender].kind = pb'.g_replace.track.kind
         /\ pb'.pc.senders = [pb.pc.senders EXCEPT ![pb.sc.sender] = pb'.g_replace.track]
    ELSE pb'.pc.senders = pb.pc.senders

(* C23: replaceTrack(newTrack) tells its caller that it replaced the track *)
(* of an existing sender exactly when a sender whose track has the kind of *)
(* newTrack exists, and then that sender carries newTrack; otherwise it    *)
(* tells that no sender matched, and the senders are as they were.         *)
C23_ReplaceTrackReportsOutcome ==
    [][ReplaceTrackReturned =>
          /\ SendersAfterReplace
          /\ pb'.g_replace.result = IF pb'.g_replace.found THEN "replacedExisting"
                                    ELSE "noMatchingSender"]_vars

(* C26: isPublishing is true only while the publisher has a peer           *)
(* connection whose connection state is connected; so it is false after    *)
(* the state became disconnected or failed, after stop(), and after        *)
(* initialize() put a fresh peer connection in the place of a previous one.*)
C26_IsPublishingFollowsPc ==
    pb.isPublishing => (pb.pc.has /\ pb.pc.connectionState = "connected")

\* startScreenShare ends in the step, with a screen stream that has an audio
\* track for which replaceTrack found no audio sender
SharedAudioWithoutSender ==
    /\ pb.sc.at = "audio"
    /\ pb'.g_last = [op |-> "startScreenShare", result |-> "started"]
    /\ pb'.g_replace.result # "" /\ ~pb'.g_replace.found

(* C24: when startScreenShare got a screen stream with an audio track and  *)
(* the publisher had no audio sender to reuse, it has restarted the        *)
(* publisher and re-applied the screen tracks by the time it completes:    *)
(* isScreenShareAudio and isScreenSharing are true, and the senders carry  *)
(* the screen's audio track.                                               *)
C24_ScreenAudioRestartsPublisher ==
    [][SharedAudioWithoutSender =>
          /\ pb'.isScreenSharing
          /\ pb'.isScreenShareAudio
          /\ pb'.g_replace.track \in Range(pb'.pc.senders)]_vars

\* stopScreenShare ends in the step, having restored the camera: when the
\* screen stream was obtained the publisher was publishing the camera stream
\* of the preview, and it was not stopped or started again since (g_quiet)
ScreenShareReverted ==
    /\ pb'.g_last = [op |-> "stopScreenShare", result |-> "stopped"]
    /\ pb'.g_quiet

-----------------------------------------------------------------------------
(* Properties of the passes of syncSubscriptions and of publisher_left *)

\* what the passes did in the step, in order
PassLog == rs'.g_step.pass

(* C27: a pass of syncSubscriptions that finds no feed of another user     *)
(* sends neither a subscribe request nor a subscribe_answer, leaves the    *)
(* subscriber session without a subscription and remoteStreams empty; a    *)
(* pass that finds feeds issues one subscribe request, for exactly the     *)
(* feeds of the other users in publishers.                                 *)
C27_PassFollowsFeedSet ==
    [][\A i \in DOMAIN PassLog :
         /\ PassLog[i] = "empty" =>
               /\ \A j \in DOMAIN PassLog : j > i => PassLog[j] = "empty"
               /\ OthersFeeds(rs') = {}
               /\ Outstanding(ch', "subscribe") = {}
               /\ co'.sync = IdleSync
               /\ rs'.subscriptions = {}
               /\ rs'.remoteStreams = {}
         /\ PassLog[i] = "subscribe" =>
               /\ i = Len(PassLog)
               /\ Outstanding(ch', "subscribe") = {co'.sync.req}
               /\ co'.sync.feeds = OthersFeeds(rs')
               /\ co'.sync.feeds # {}
               /\ rs'.g_lastSub = [sent |-> TRUE, feeds |-> OthersFeeds(rs')]]_vars

\* a pass sent its subscribe_answer and the pass that followed it in the same
\* step found nothing to subscribe to, and tore the subscriptions down
C27_Witness ==
    /\ rs.g_maps
    /\ rs.g_step.pass = <<"answer", "sent", "empty">>
    /\ rs.subscriptions = {} /\ rs.remoteStreams = {}

\* a pass issued the subscribe request for two feeds
C27_WitnessSubscribe ==
    /\ rs.g_maps
    /\ rs.g_step.pass = <<"subscribe">>
    /\ co.sync.feeds = FeedKeys

\* the orders in which a pass that subscribes goes through its steps: the
\* request, its response, the answer of the subscriber, and the call of
\* signaling.send with it; the catch block ends a pass that fails
PassOrders ==
    { <<"subscribe", "response", "answer", how>> : how \in {"sent", "discarded"} }
    \cup { <<"subscribe", "response", "answer", how, "caught">> :
              how \in {"notconnected", "senderror"} }
    \cup { <<"subscribe", "caught">>, <<"subscribe", "response", "caught">> }

IsPrefix(s, t) == Len(s) <= Len(t) /\ SubSeq(t, 1, Len(s)) = s

(* C28: a pass goes through its steps in the order subscribe request,      *)
(* response, answer of the subscriber, subscribe_answer: a subscribe_answer *)
(* is sent only after the response of the same pass and once for it, and   *)
(* it is sent without a request_id, so that no request of the channel is a *)
(* subscribe_answer.                                                       *)
C28_PassKeepsOrder ==
    /\ rs.g_pass \in {<<>>, <<"empty">>} \/ \E t \in PassOrders : IsPrefix(rs.g_pass, t)
    /\ co.sync.pc = "request" => rs.g_pass = <<"subscribe">>
    /\ co.sync.pc = "answer" => rs.g_pass = <<"subscribe", "response">>
    /\ co.sync.pc = "idle" => rs.g_pass \in {<<>>, <<"empty">>} \cup PassOrders
    /\ \A r \in Issued(ch) : ch.reqs[r].type # "subscribe_answer"

\* a pass went through all its steps and sent its subscribe_answer
C28_Witness ==
    /\ rs.g_pass = <<"subscribe", "response", "answer", "sent">>
    /\ co.sync.pc = "idle"
    /\ rs.subscriptions # {}

\* the catch block of a pass ran in the step
PassFailed == \E i \in DOMAIN PassLog : PassLog[i] = "caught"

(* C29: a pass that fails, because its subscribe request was rejected or   *)
(* timed out, the subscriber's batched subscribe threw or rejected, or     *)
(* sending the answer threw, leaves publishers and participants as they    *)
(* were, so it removes no participant, and the functions that await the    *)
(* call (joinRoom, startPublishing) go on as after a pass that succeeded.  *)
C29_FailedPassChangesNoMap ==
    [][PassFailed =>
          /\ rs'.publishers = rs.publishers
          /\ rs'.participants = rs.participants
          /\ \A n \in co.sync.waiters :
                /\ co'[n].pc = co[n].pc /\ co[n].pc = "sync"
                /\ co'[n].ready \/ n \in co'.sync.waiters]_vars

\* the subscriber's batched subscribe failed in a pass that joinRoom awaits,
\* with the publisher of the feed among the participants
C29_Witness ==
    /\ rs.g_maps
    /\ rs.g_step.pass = <<"caught">>
    /\ rs.g_pass = <<"subscribe", "response", "caught">>
    /\ rs.participants["u2"] = "publishing"
    /\ co.join.pc = "sync" /\ co.join.ready

\* sending the answer threw because the channel was no longer connected
C29_WitnessSendThrows ==
    /\ rs.g_maps
    /\ rs.g_pass = <<"subscribe", "response", "answer", "notconnected", "caught">>
    /\ rs.participants["u2"] = "publishing"

\* a publisher_left message for the feed was handled in the step
PublisherLeft(feedId) == rs'.g_step.gone = {feedId} /\ rs.handlers = 1

(* C30: publisher_left for a feed that is in publishers, its feed_id given *)
(* as a number or as a string, removes the feed from publishers and from   *)
(* remoteStreams, leaves the subscriber without a subscription for it,     *)
(* makes the participant of the publisher's user_id not publishing without *)
(* removing it, and calls syncSubscriptions; for a feed that is not in     *)
(* publishers it changes no map and calls nothing.                         *)
C30_PublisherLeftRemovesFeed ==
    [][\A feedId \in FeedIds :
         PublisherLeft(feedId) =>
            LET k == String(feedId)
                pub == rs.publishers[k]
            IN IF pub # NoPublisher
               THEN /\ rs'.publishers = [rs.publishers EXCEPT ![k] = NoPublisher]
                    /\ k \notin rs'.remoteStreams
                    /\ k \notin rs'.subscriptions
                    /\ rs'.participants =
                          [rs.participants EXCEPT ![pub] = IF @ = "absent" THEN @ ELSE "present"]
                    /\ rs'.g_step.called
               ELSE /\ rs'.publishers = rs.publishers
                    /\ rs'.participants = rs.participants
                    /\ rs'.remoteStreams = rs.remoteStreams
                    /\ rs'.subscriptions = rs.subscriptions
                    /\ ~rs'.g_step.called]_vars

-----------------------------------------------------------------------------
(* Properties of the participants joinRoom leaves in the store *)

\* the keys of a Map
mapKeys(m) == { m[i].key : i \in DOMAIN m }

\* the value a Map holds under a key it has
mapGet(m, key) == m[CHOOSE i \in DOMAIN m : m[i].key = key].value

\* the user ids the joined payload names: its participants, and its
\* publishers that carry a user_id
JoinedUsers(joinResult) ==
    { joinResult.participants[i].user_id : i \in DOMAIN joinResult.participants }
    \cup ({ joinResult.publishers[i].user_id : i \in DOMAIN joinResult.publishers } \ {NoUser})

\* the display names the joined payload gives a user
JoinedDisplays(joinResult, u) ==
    { joinResult.participants[i].display :
         i \in { n \in DOMAIN joinResult.participants : joinResult.participants[n].user_id = u } }
    \cup { joinResult.publishers[i].display :
              i \in { n \in DOMAIN joinResult.publishers : joinResult.publishers[n].user_id = u } }

(* C31: once joinRoom has taken the joined response, the participants map  *)
(* holds exactly the participants of that response, its publishers that    *)
(* carry a user_id, and self; a member only the REST join response named   *)
(* is not in it, self is held under the display name joinRoom was called   *)
(* with, and every other entry has a display name of the joined response   *)
(* and is publishing exactly when the response lists it as a publisher.    *)
C31_JoinedPayloadDecidesParticipants ==
    jr.isJoined =>
       /\ Cardinality(mapKeys(jr.participants)) = Len(jr.participants)
       /\ mapKeys(jr.participants) = JoinedUsers(jr.g_joined) \cup {jr.userId}
       /\ \A u \in mapKeys(jr.participants) :
             LET p == mapGet(jr.participants, u)
             IN /\ p.user_id = u
                /\ IF u = jr.userId
                   THEN p.display = jr.displayName /\ ~p.is_publishing
                   ELSE /\ p.display \in JoinedDisplays(jr.g_joined, u)
                        /\ p.is_publishing <=>
                              \E i \in DOMAIN jr.g_joined.publishers :
                                 jr.g_joined.publishers[i].user_id = u

\* joinRoom ended after a REST response that named a member the joined
\* response does not name, and named self under another display name
C31_Witness ==
    /\ jr.isJoined /\ jr.at = "joined"
    /\ jr.g_rest = <<[user_id |-> "u2", display |-> "Alice"], [user_id |-> "me", display |-> "Bob"]>>
    /\ jr.g_joined = NoJoined
    /\ jr.displayName = "Alice"
    /\ mapKeys(jr.participants) = {"me"}

-----------------------------------------------------------------------------
(* Properties of the handling of remote_candidate *)

\* a remote_candidate message was handled in the step: the step is not one
\* of the publisher alone, which leaves the subscriber's record as it was
CandidateHandled ==
    /\ sb'.g_last.op \in {"addIceCandidate", "notCalled"}
    /\ [pb' EXCEPT !.g_last = NoResult] = Fresh

(* C32: a remote_candidate with a feed_id is handed to the subscriber, and *)
(* applied to the peer connection of the subscription of that feed, and    *)
(* the publisher is not called; one without feed_id is handed to the       *)
(* publisher and the subscriber is not called; when the feed has no        *)
(* subscription the candidate is dropped; subscriptions is unchanged.      *)
C32_CandidateGoesToItsSession ==
    [][CandidateHandled =>
          LET feed_id == sb'.g_last.feed
              pc == sb.subscriptions[String(feed_id)]
          IN /\ sb'.subscriptions = sb.subscriptions
             /\ IF feed_id # NoFeedId
                THEN /\ sb'.g_last.op = "addIceCandidate"
                     /\ pb'.g_last.op # "addIceCandidate"
                     /\ sb'.g_last.pc = pc
                ELSE /\ sb'.g_last.op = "notCalled"
                     /\ pb'.g_last.op = "addIceCandidate"]_vars

-----------------------------------------------------------------------------
(* Properties of the subscriber's callbacks in the store *)

(* C33: while the store is joined, a track that a subscription reports is  *)
(* put into remoteStreams and an ICE candidate that it reports is handed   *)
(* to signaling.send as trickle_ice: the callbacks registered at join are  *)
(* still registered, also after a pass that found no feeds.                *)
C33_CallbacksStayRegistered ==
    [][(rs.isJoined /\ rs'.g_step.event # "") =>
          rs'.g_step.event \in {"track", "trickle_ice", "trickle_ice threw"}]_vars

-----------------------------------------------------------------------------
(* Properties of cleanup in the store *)

\* no function of the store is executing or suspended
AllEnded == co = InitCo

\* the publisher has no peer connection and no local stream, the subscriber
\* has no subscription, and the maps of the store are empty
NothingLive(r) ==
    /\ ~r.pubInit /\ ~r.pubStream
    /\ r.subscriptions = {} /\ r.remoteStreams = {}
    /\ \A k \in FeedKeys : r.publishers[k] = NoPublisher
    /\ \A u \in Users : r.participants[u] = "absent"

(* C34: once cleanup() has run and every function of the store that was    *)
(* in flight has ended, nothing is live: the publisher has no peer         *)
(* connection and no local stream, the subscriber has no subscription,     *)
(* and participants, publishers and remoteStreams are empty; also when     *)
(* cleanup() ran while startPublishing or a pass was suspended.            *)
C34_NothingLiveAfterCleanup ==
    (~rs.isJoined /\ ~rs.isJoining /\ AllEnded) => NothingLive(rs)

-----------------------------------------------------------------------------
(* Properties of the handlers the store registers on the channel *)

\* a message of the server is dispatched to the handlers of the store in the step
ServerEventHandled == rs'.g_step.handled > 0

(* C35: across joinRoom and leaveRoom cycles on the shared channel a       *)
(* message of the server is processed by exactly one handler of the store: *)
(* the handlers of an earlier join are not called again.                   *)
C35_OneHandlerPerEvent ==
    [][ServerEventHandled => rs'.g_step.handled = 1]_vars

-----------------------------------------------------------------------------
(* Properties of the single-flight flags of the store *)

(* C36: when no call of startPublishing is executing or suspended,         *)
(* startPublishingInProgress is false, and when no pass of                 *)
(* syncSubscriptions is executing or suspended, subscriptionSyncInProgress *)
(* is false, however the call or the pass ended: no later call is skipped  *)
(* because of a flag that nothing will reset.                              *)
C36_FlagsReleased ==
    /\ co.publish.pc = "idle" => ~rs.startPublishingInProgress
    /\ co.sync.pc = "idle" => ~rs.subscriptionSyncInProgress

\* startPublishing has ended because getUserMedia failed, and a pass that
\* sent a subscribe request has ended
C36_Witness ==
    /\ co.publish.pc = "idle" /\ rs.pubInit /\ ~rs.pubStream
    /\ ~rs.startPublishingInProgress
    /\ co.sync.pc = "idle" /\ rs.g_lastSub.sent
    /\ ~rs.subscriptionSyncInProgress

-----------------------------------------------------------------------------
(* Properties of the connection flags of the channel *)

\* the socket the channel holds is open
CurrentSocketOpen(c) == c.ws # NoSocket /\ c.socks[c.ws].st = "open"

(* C37: isConnected is true exactly when the socket the channel holds is   *)
(* open (the close event of a socket that was replaced or dropped does not *)
(* clear the flags of the current one), and isConnected and isConnecting   *)
(* are never both true.                                                    *)
C37_IsConnectedFollowsSocket ==
    /\ ch.isConnected <=> CurrentSocketOpen(ch)
    /\ ~(ch.isConnected /\ ch.isConnecting)

-----------------------------------------------------------------------------
(* Properties of remoteStreams against publishers *)

(* C38: whenever the store is quiescent (no pass in progress, none         *)
(* pending) every feed that has a remote stream is a feed of publishers: a *)
(* feed whose publisher_left came during a pass that covered it has no     *)
(* remote stream once the follow-up pass has ended.                        *)
C38_RemoteStreamsWithinPublishers ==
    Quiescent => \A k \in rs.remoteStreams : rs.publishers[k] # NoPublisher

-----------------------------------------------------------------------------
(* Properties of the guard of joinRoom *)

\* a call of joinRoom is suspended at one of its awaits
JoinInFlight == co.join.pc \notin {"idle", "failed"}

(* C39: at most one join flow is in progress: while a call of joinRoom is  *)
(* suspended isJoining or isJoined is true, so that another call returns   *)
(* at the guard without a REST call, a connection, handlers or join_room;  *)
(* and isJoining is false when no call of joinRoom is in progress.         *)
C39_OneJoinFlow ==
    /\ JoinInFlight => (rs.isJoining \/ rs.isJoined)
    /\ co.join.pc = "idle" => ~rs.isJoining
=============================================================================
